---- MODULE Spec2Model ----
(***************************************************************************)
(* The product search path of the dropshipping backend: the marketplace    *)
(* adapters (Amazon, AliExpress, Temu, eBay), the GET /api/products/search *)
(* route with its in-process response cache and products table, the usage  *)
(* limiter and the error middleware; then the order profit trigger, the   *)
(* AI score routes, product import, stores and Stripe subscription events, *)
(* password reset, and the routes of orders, stores, imported products and *)
(* notifications.  users, stores, imported_products, notifications and     *)
(* subscriptions are the tables of those names, as sets of rows (users as  *)
(* a function of the user id).                                             *)
(*                                                                         *)
(* Units.  Prices are held in cents and ratings in tenths of a star, so    *)
(* that the floats of the code are integers here; query parameters keep    *)
(* the units the caller writes (dollars, stars).  Time is counted in whole *)
(* hours since the UTC midnight of day 0 and requests happen on the hour.  *)
(*                                                                         *)
(* An optional query parameter is <<>> when absent (undefined in the       *)
(* code) and <<v>> when given.                                             *)
(***************************************************************************)
EXTENDS Integers, Sequences, FiniteSets, TLC

VARIABLES now, usage_logs, products, cache, response, env, call, result,
          reqs, tracked, orders, users, stores, imported_products, notifications,
          subscriptions

vars == <<now, usage_logs, products, cache, response, env, call, result,
          reqs, tracked, orders, users, stores, imported_products, notifications,
          subscriptions>>

(***************************************************************************)
(* Bounds of the model.                                                    *)
(***************************************************************************)
\* longest list an upstream site or API answers with
MaxItems == 2
\* last hour the clock reaches
MaxNow == 26

\* requests the concurrent specification keeps in flight at once
MaxRequests == 2

Procs == 1..MaxRequests

\* no request is in flight
NoReqs == [p \in Procs |-> [pc |-> "idle", seen |-> <<>>, existing |-> {}]]

(***************************************************************************)
(* Helpers for optional parameters and sequences.                          *)
(***************************************************************************)
Has(p) == p # <<>>

Val(p) == p[1]

Min(a, b) == IF a <= b THEN a ELSE b

\* limit || d
OrDefault(p, d) == IF Has(p) THEN Val(p) ELSE d

\* parseFloat of a dollar amount, in cents
Cents(d) == d * 100

\* parseFloat of a star rating, in tenths
Tenths(s) == s * 10

Range(s) == {s[i] : i \in 1..Len(s)}

RECURSIVE SeqsUpTo(_, _)
SeqsUpTo(S, n) ==
    IF n = 0 THEN {<<>>}
    ELSE LET shorter == SeqsUpTo(S, n - 1)
         IN  shorter \cup {Append(s, x) : s \in {t \in shorter : Len(t) = n - 1}, x \in S}

Product(source, externalId, price, rating) ==
    [source |-> source, externalId |-> externalId, price |-> price, rating |-> rating]

\* an upstream call that failed (network error, non-2xx, timeout)
Failed == [ok |-> FALSE, items |-> <<>>]

Answered(items) == [ok |-> TRUE, items |-> items]

(***************************************************************************)
(* Amazon adapter.                                                         *)
(***************************************************************************)
parseAmazonAPIResponse(items) ==
    [i \in 1..Len(items) |->
        Product("amazon", items[i].id, items[i].price, items[i].rating)]

PassesPrice(filters, price) ==
    /\ ~(Has(filters.minPrice) /\ price < Cents(Val(filters.minPrice)))
    /\ ~(Has(filters.maxPrice) /\ price > Cents(Val(filters.maxPrice)))

scrapeAmazonProducts(query, filters, page) ==
    IF ~page.ok THEN <<>>
    ELSE LET seen == SubSeq(page.items, 1, Min(Len(page.items), OrDefault(filters.limit, 20)))
             keep(it) == /\ PassesPrice(filters, it.price)
                         /\ ~(Has(filters.minRating) /\ it.rating < Tenths(Val(filters.minRating)))
             kept == SelectSeq(seen, keep)
         IN  [i \in 1..Len(kept) |->
                 Product("amazon", kept[i].id, kept[i].price, kept[i].rating)]

\* the API is asked for ItemCount: filters.limit || 20 and answers with at most that many
searchAmazonAPI(query, filters, up) ==
    parseAmazonAPIResponse(SubSeq(up.api.items, 1, Min(Len(up.api.items), OrDefault(filters.limit, 20))))

searchAmazon(query, filters, e, up) ==
    IF "amazon" \in e /\ up.api.ok
    THEN searchAmazonAPI(query, filters, up)
    ELSE scrapeAmazonProducts(query, filters, up.scrape)

(***************************************************************************)
(* AliExpress adapter.                                                     *)
(***************************************************************************)
parseAliExpressAPIResponse(items) ==
    [i \in 1..Len(items) |->
        Product("aliexpress", items[i].id, items[i].price, items[i].rating)]

extractItemsFromJSON(items) ==
    [i \in 1..Len(items) |->
        Product("aliexpress", items[i].id, items[i].price, items[i].rating)]

\* up.rnd.ratings[k]: the k-th draw of Math.random() scaled to tenths
Draw(up, i) == up.rnd.ratings[((i - 1) % Len(up.rnd.ratings)) + 1]

scrapeAliExpressProducts(query, filters, up) ==
    IF ~up.scrape.ok THEN <<>>
    ELSE LET lim == OrDefault(filters.limit, 20)
             keep(it) == PassesPrice(filters, it.price)
             fromJson == SelectSeq(
                 extractItemsFromJSON(SubSeq(up.scrape.items, 1, Min(Len(up.scrape.items), lim))),
                 keep)
             cards == SubSeq(up.cards, 1, Min(Len(up.cards), lim))
             idx == SelectSeq([i \in 1..Len(cards) |-> i], LAMBDA i : keep(cards[i]))
             fromHtml == [k \in 1..Len(idx) |->
                 Product("aliexpress", cards[idx[k]].id, cards[idx[k]].price,
                         IF cards[idx[k]].rating # 0 THEN cards[idx[k]].rating
                         ELSE 40 + Draw(up, idx[k]))]
         IN  IF Len(fromJson) # 0 THEN fromJson ELSE fromHtml

\* the API is asked for page_size: filters.limit || 20 items priced within
\* min_sale_price..max_sale_price and answers with nothing else
searchAliExpressAPI(query, filters, up) ==
    LET asked == SelectSeq(up.api.items, LAMBDA it : PassesPrice(filters, it.price))
    IN  parseAliExpressAPIResponse(SubSeq(asked, 1, Min(Len(asked), OrDefault(filters.limit, 20))))

searchAliExpress(query, filters, e, up) ==
    IF "aliexpress" \in e /\ up.api.ok
    THEN searchAliExpressAPI(query, filters, up)
    ELSE scrapeAliExpressProducts(query, filters, up)

(***************************************************************************)
(* Temu adapter: always the mock generator.                                *)
(***************************************************************************)
getMockTemuProducts(query, filters, up, at) ==
    LET n == OrDefault(filters.limit, 10)
        price(i) == up.rnd.base + i * 150
        idx == SelectSeq([i \in 1..n |-> i], LAMBDA i : PassesPrice(filters, price(i)))
    IN  [k \in 1..Len(idx) |->
            \* the id is TEMU${Date.now()}${i}
            Product("temu", 1000 + at * 100 + idx[k], price(idx[k]), 42 + Draw(up, idx[k]))]

searchTemu(query, filters, up, at) == getMockTemuProducts(query, filters, up, at)

(***************************************************************************)
(* eBay adapter.                                                           *)
(***************************************************************************)
\* the access token, or FALSE for null
getEbayToken(e, up) == "ebay" \in e /\ up.token

parseEbayResponse(items, filters) ==
    LET kept == SelectSeq(items, LAMBDA it : PassesPrice(filters, it.price))
    IN  [i \in 1..Len(kept) |-> Product("ebay", kept[i].id, kept[i].price, 0)]

\* the Browse API is asked for limit: filters.limit || 20 items
searchEbay(query, filters, e, up) ==
    IF ~getEbayToken(e, up) THEN <<>>
    ELSE IF ~up.api.ok THEN <<>>
    ELSE parseEbayResponse(
            SubSeq(up.api.items, 1, Min(Len(up.api.items), OrDefault(filters.limit, 20))), filters)

(***************************************************************************)
(* Usage limiter (usage.service.js) over the usage_logs table, a set of    *)
(* rows [user_id, action, date, count] with UNIQUE(user_id, action, date). *)
(***************************************************************************)
HoursPerDay == 24

\* new Date().toISOString().split('T')[0]
today(at) == at \div HoursPerDay

USAGE_LIMITS ==
    [free |-> [search |-> 10, import |-> 5, ai_analysis |-> 3],
     pro  |-> [search |-> -1, import |-> -1, ai_analysis |-> -1]]

\* .eq('user_id').eq('action').eq('date').single(): the row, or {} for null
usageRow(logs, userId, action, date) ==
    LET hit == {l \in logs : l.user_id = userId /\ l.action = action /\ l.date = date}
    IN  IF Cardinality(hit) = 1 THEN hit ELSE {}

currentCount(logs, userId, action, date) ==
    LET hit == usageRow(logs, userId, action, date)
    IN  IF hit = {} THEN 0 ELSE (CHOOSE l \in hit : TRUE).count

\* a check that compares the count with the limit even when the limit is -1
checkUsageLimit_noUnlimited(logs, userId, action, tier, at) ==
    LET limit == IF tier \in DOMAIN USAGE_LIMITS THEN USAGE_LIMITS[tier][action]
                 ELSE USAGE_LIMITS.free[action]
    IN  currentCount(logs, userId, action, today(at)) < limit

checkUsageLimit_offByOne(logs, userId, action, tier, at) ==
    LET limit == IF tier \in DOMAIN USAGE_LIMITS THEN USAGE_LIMITS[tier][action]
                 ELSE USAGE_LIMITS.free[action]
    IN  IF limit = -1 THEN TRUE
        ELSE currentCount(logs, userId, action, today(at)) <= limit

checkUsageLimit(logs, userId, action, tier, at) ==
    LET limit == IF tier \in DOMAIN USAGE_LIMITS THEN USAGE_LIMITS[tier][action]
                 ELSE USAGE_LIMITS.free[action]
    IN  IF limit = -1 THEN TRUE
        ELSE currentCount(logs, userId, action, today(at)) < limit

trackUsage(logs, userId, action, at) ==
    LET existing == usageRow(logs, userId, action, today(at))
    IN  IF existing # {}
        THEN (logs \ existing) \cup {[l EXCEPT !.count = l.count + 1] : l \in existing}
        ELSE logs \cup {[user_id |-> userId, action |-> action, date |-> today(at), count |-> 1]}

(***************************************************************************)
(* Error middleware (error.middleware.js).                                 *)
(***************************************************************************)
AppError(message, statusCode, code) ==
    [name |-> "Error", message |-> message, statusCode |-> statusCode, code |-> code]

\* the status and error.code of the JSON answer
errorHandler(err) ==
    LET e0 == err
        e1 == IF err.code = "23505" THEN AppError("Resource already exists", 409, "DUPLICATE") ELSE e0
        e2 == IF err.code = "23503" THEN AppError("Referenced resource not found", 404, "NOT_FOUND") ELSE e1
        e3 == IF err.name = "JsonWebTokenError" THEN AppError("Invalid token", 401, "INVALID_TOKEN") ELSE e2
        e4 == IF err.name = "TokenExpiredError" THEN AppError("Token expired", 401, "TOKEN_EXPIRED") ELSE e3
        e5 == IF err.statusCode = 429
              THEN AppError("Too many requests, please try again later", 429, "RATE_LIMIT") ELSE e4
    IN  [status |-> IF e5.statusCode # 0 THEN e5.statusCode ELSE 500,
         code |-> IF e5.code # "" THEN e5.code ELSE "SERVER_ERROR",
         message |-> e5.message]

(***************************************************************************)
(* The products table: a sequence of rows in insertion order, with         *)
(* CHECK (source IN ...) and UNIQUE(source, external_id).                  *)
(***************************************************************************)
SourceCheck == {"amazon", "aliexpress", "temu"}

SameKey(row, product) ==
    row.source = product.source /\ row.external_id = product.externalId

\* the row an insert creates: ai_score and ai_analysis are NULL and is_winning
\* takes its default
RowOf(product, at) ==
    [source |-> product.source, external_id |-> product.externalId,
     price |-> product.price, rating |-> product.rating, cached_at |-> at,
     ai_score |-> <<>>, ai_analysis |-> <<>>, is_winning |-> FALSE]

\* an upsert that replaces the whole row on conflict, the columns it does not
\* name falling back to their defaults
upsert_replace(table, product, at) ==
    IF product.source \notin SourceCheck THEN table
    ELSE IF \E i \in 1..Len(table) : SameKey(table[i], product)
    THEN [i \in 1..Len(table) |->
            IF SameKey(table[i], product) THEN RowOf(product, at) ELSE table[i]]
    ELSE Append(table, RowOf(product, at))

\* a plain insert: the unique index rejects the second row and nothing is written
upsert_insertOnly(table, product, at) ==
    IF product.source \notin SourceCheck THEN table
    ELSE IF \E i \in 1..Len(table) : SameKey(table[i], product) THEN table
    ELSE Append(table, RowOf(product, at))

\* .upsert({...}, { onConflict: 'source,external_id' })
upsert(table, product, at) ==
    IF product.source \notin SourceCheck THEN table
    ELSE IF \E i \in 1..Len(table) : SameKey(table[i], product)
    THEN [i \in 1..Len(table) |->
            IF SameKey(table[i], product)
            THEN [table[i] EXCEPT !.price = product.price, !.rating = product.rating,
                                  !.cached_at = at]
            ELSE table[i]]
    ELSE Append(table, RowOf(product, at))

RECURSIVE upsertAll(_, _, _)
upsertAll(table, list, at) ==
    IF list = <<>> THEN table
    ELSE upsertAll(upsert(table, Head(list), at), Tail(list), at)

(***************************************************************************)
(* The response cache: new NodeCache({ stdTTL: 3600 }), a set of entries   *)
(* [key, v, t], one per key, where t is the hour the entry expires.        *)
(***************************************************************************)
stdTTL == 1

\* _check: an entry is dead once t < Date.now()
Alive(entry, at) == ~(entry.t < at)

\* a get that takes an entry for dead in the hour it expires
cacheGet_early(c, key, at) ==
    LET hit == {en \in c : en.key = key /\ at < en.t}
    IN  IF hit = {} THEN <<>> ELSE <<(CHOOSE en \in hit : TRUE).v>>

\* cache.get(key): the value in a one-element sequence, or <<>> for undefined
cacheGet(c, key, at) ==
    LET hit == {en \in c : en.key = key /\ Alive(en, at)}
    IN  IF hit = {} THEN <<>> ELSE <<(CHOOSE en \in hit : TRUE).v>>

cacheSet(c, key, value, at) ==
    {en \in c : en.key # key} \cup {[key |-> key, v |-> value, t |-> at + stdTTL]}

(***************************************************************************)
(* GET /api/products/search (products.routes.js).                          *)
(***************************************************************************)
Users == {"alice", "bob"}

\* req.user.subscription_tier, read from the users table by authenticate
subscription_tier(u) == IF u = "alice" THEN "free" ELSE "pro"

Sources == {"amazon", "aliexpress", "temu", "ebay", "all"}

ValidLimit_noMin(r) == ~Has(r.limit) \/ Val(r.limit) <= 50

ValidLimit(r) == ~Has(r.limit) \/ (Val(r.limit) >= 1 /\ Val(r.limit) <= 50)

\* validationResult(req).isEmpty()
validationResult(r) ==
    /\ r.q # ""
    /\ ~Has(r.source) \/ Val(r.source) \in Sources
    /\ ~Has(r.minPrice) \/ Val(r.minPrice) >= 0
    /\ ~Has(r.maxPrice) \/ Val(r.maxPrice) >= 0
    /\ ~Has(r.minRating) \/ (Val(r.minRating) >= 0 /\ Val(r.minRating) <= 5)
    /\ ~Has(r.page) \/ Val(r.page) >= 1
    /\ ValidLimit(r)

\* ${x} of an optional number and of an optional string
Str(p) == IF Has(p) THEN ToString(Val(p)) ELSE "undefined"

cacheKey(r) ==
    "search:" \o r.q \o ":" \o OrDefault(r.source, "all") \o ":" \o Str(r.minPrice)
        \o ":" \o Str(r.maxPrice) \o ":" \o Str(r.minRating)
        \o ":" \o (IF Has(r.category) THEN Val(r.category) ELSE "undefined")
        \o ":" \o ToString(OrDefault(r.page, 1))

AdapterOrder == <<"amazon", "aliexpress", "temu", "ebay">>

callAdapter(name, query, filters, e, up, at) ==
    CASE name = "amazon" -> searchAmazon(query, filters, e, up)
      [] name = "aliexpress" -> searchAliExpress(query, filters, e, up)
      [] name = "temu" -> searchTemu(query, filters, up, at)
      [] name = "ebay" -> searchEbay(query, filters, e, up)

\* The try block of the route: the adapters the source asks for, in order, each
\* awaited before the next; `fault` names the adapter whose call throws ("none":
\* no call throws).  One catch closes the whole block.
RECURSIVE aggregate(_, _, _, _, _, _, _, _, _)
aggregate(names, acc, source, query, filters, e, up, fault, at) ==
    IF names = <<>> THEN acc
    ELSE LET name == Head(names)
         IN  IF ~(source = "all" \/ source = name)
             THEN aggregate(Tail(names), acc, source, query, filters, e, up, fault, at)
             ELSE IF fault = name
             THEN [acc EXCEPT !.invoked = @ \cup {name}]
             ELSE aggregate(Tail(names),
                            [products |-> acc.products \o callAdapter(name, query, filters, e, up, at),
                             invoked |-> acc.invoked \cup {name}],
                            source, query, filters, e, up, fault, at)

NoPagination == [page |-> 0, limit |-> 0, total |-> 0, hasMore |-> FALSE]

NoData == [products |-> <<>>, pagination |-> NoPagination]

NoRequest ==
    [q |-> "", source |-> <<>>, minPrice |-> <<>>, maxPrice |-> <<>>, minRating |-> <<>>,
     category |-> <<>>, page |-> <<>>, limit |-> <<>>]

\* no request is being answered
NoResponse ==
    [status |-> 0, code |-> "", cached |-> FALSE, data |-> NoData, user |-> "",
     req |-> NoRequest, invoked |-> {}, fault |-> "none", up |-> <<>>]

\* the answer to request r of user u that called no adapter
Answer(u, r, status, code, cached, data) ==
    [status |-> status, code |-> code, cached |-> cached, data |-> data, user |-> u,
     req |-> r, invoked |-> {}, fault |-> "none", up |-> <<>>]

\* the answer of the aggregation flagged cached: true
Aggregated_cached(u, r, data, invoked, fault, up) ==
    [status |-> 200, code |-> "", cached |-> TRUE, data |-> data, user |-> u,
     req |-> r, invoked |-> invoked, fault |-> fault, up |-> <<up>>]

\* the answer of the aggregation: the adapters it called, the one whose call
\* threw and what the marketplaces answered (<<up>>)
Aggregated(u, r, data, invoked, fault, up) ==
    [status |-> 200, code |-> "", cached |-> FALSE, data |-> data, user |-> u,
     req |-> r, invoked |-> invoked, fault |-> fault, up |-> <<up>>]

\* throw new AppError(..., 429, 'LIMIT_REACHED'), answered by the error middleware
limitReached(st, u, r) ==
    LET e == errorHandler(AppError("Daily search limit reached.", 429, "LIMIT_REACHED"))
    IN  [usage_logs |-> st.usage_logs, products |-> st.products, cache |-> st.cache,
         response |-> Answer(u, r, e.status, e.code, FALSE, NoData)]

\* const filters = { minPrice, maxPrice, minRating, category, page, limit }
filtersOf(r) ==
    [minPrice |-> r.minPrice, maxPrice |-> r.maxPrice, minRating |-> r.minRating,
     category |-> r.category, page |-> <<OrDefault(r.page, 1)>>,
     limit |-> <<OrDefault(r.limit, 20)>>]

\* lines 59-130: aggregate, upsert every product, track usage, cache the result
runSearch(st, u, r, up, fault) ==
    LET source == OrDefault(r.source, "all")
        page == OrDefault(r.page, 1)
        limit == OrDefault(r.limit, 20)
        filters == filtersOf(r)
        got == aggregate(AdapterOrder, [products |-> <<>>, invoked |-> {}], source, r.q,
                         filters, st.env, up, fault, st.now)
        res == [products |-> got.products,
                pagination |-> [page |-> page, limit |-> limit, total |-> Len(got.products),
                                hasMore |-> Len(got.products) = limit]]
    IN  [usage_logs |-> trackUsage(st.usage_logs, u, "search", st.now),
         products |-> upsertAll(st.products, got.products, st.now),
         cache |-> cacheSet(st.cache, cacheKey(r), res, st.now),
         response |-> Aggregated(u, r, res, got.invoked, fault, up)]

searchHandler(st, u, r, up, fault) ==
    IF ~validationResult(r)
    THEN [usage_logs |-> st.usage_logs, products |-> st.products, cache |-> st.cache,
          response |-> Answer(u, r, 400, "", FALSE, NoData)]
    ELSE IF ~checkUsageLimit(st.usage_logs, u, "search", subscription_tier(u), st.now)
    THEN limitReached(st, u, r)
    ELSE LET cached == cacheGet(st.cache, cacheKey(r), st.now)
             swept == {en \in st.cache : en.key # cacheKey(r) \/ Alive(en, st.now)}
         IN  IF cached # <<>>
             THEN [usage_logs |-> st.usage_logs, products |-> st.products, cache |-> st.cache,
                   response |-> Answer(u, r, 200, "", TRUE, cached[1])]
             ELSE runSearch([st EXCEPT !.cache = swept], u, r, up, fault)

(***************************************************************************)
(* Inputs: what the marketplaces answer and what callers ask.              *)
(***************************************************************************)
\* searches per user and day the aggregation specification follows
MaxSearches == 2
\* searches per day of the unlimited (pro) user the quota specification follows
MaxProSearches == 1

Item(id, price, rating) == [id |-> id, price |-> price, rating |-> rating]

Rnd(base, ratings) == [base |-> base, ratings |-> ratings]

\* every upstream call answers with the same listing
AllAnswer(items, rnd) ==
    [api |-> Answered(items), scrape |-> Answered(items), cards |-> items, token |-> TRUE,
     rnd |-> rnd]

AllFail(rnd) ==
    [api |-> Failed, scrape |-> Failed, cards |-> <<>>, token |-> FALSE, rnd |-> rnd]

RouteListings ==
    {<<Item(1, 3000, 45)>>, <<Item(1, 2000, 30), Item(2, 6000, 0)>>}

RouteUps ==
    {AllAnswer(l, Rnd(300, <<0, 8>>)) : l \in RouteListings} \cup {AllFail(Rnd(300, <<0, 8>>))}

SearchFor(source, limit) ==
    [q |-> "earbuds", source |-> source, minPrice |-> <<>>, maxPrice |-> <<>>,
     minRating |-> <<>>, category |-> <<>>, page |-> <<1>>, limit |-> limit]

\* the requests the route is given: those that pass validation, and one
\* failing each rule
Requests ==
    LET ok == SearchFor(<<"amazon">>, <<1>>)
    IN  {SearchFor(<<s>>, <<l>>) : s \in Sources, l \in {1, 2}}
        \cup {[ok EXCEPT !.q = ""], [ok EXCEPT !.source = <<"walmart">>],
              [ok EXCEPT !.minPrice = <<-1>>], [ok EXCEPT !.maxPrice = <<-1>>],
              [ok EXCEPT !.minRating = <<6>>], [ok EXCEPT !.minRating = <<-1>>],
              [ok EXCEPT !.page = <<0>>], [ok EXCEPT !.limit = <<0>>],
              [ok EXCEPT !.limit = <<51>>]}

\* the same product at two prices
QuotaUps ==
    {AllAnswer(l, Rnd(300, <<0, 8>>)) : l \in {<<Item(1, 3000, 45)>>, <<Item(1, 2000, 30)>>}}

(***************************************************************************)
(* The adapter harness: one call of one adapter's search function.         *)
(***************************************************************************)
AdapterNames == {"amazon", "aliexpress", "temu", "ebay"}

AdapterEnvs == {{}, {"amazon", "aliexpress", "ebay"}}

\* the calls of the harness; up is one of: the official API answers; the
\* search page answers with embedded JSON; the search page answers with
\* product cards only; the token request alone fails; nothing answers
AdapterCalls ==
    LET RawItems == {Item(1, p, g) : p \in {500, 3000, 6000}, g \in {0, 45}}
        RawListings == SeqsUpTo(RawItems, MaxItems)
        Rnds == {Rnd(300, <<0, 8>>), Rnd(2700, <<8, 3>>)}
    IN  [adapter : AdapterNames, query : {"earbuds"},
         filters : [minPrice : {<<>>, <<10>>}, maxPrice : {<<>>, <<50>>},
                    minRating : {<<>>, <<4>>}, category : {<<>>}, page : {<<>>},
                    limit : {<<>>, <<1>>, <<2>>}],
         env : AdapterEnvs,
         up : UNION {
                  {[api |-> Answered(l), scrape |-> Failed, cards |-> <<>>, token |-> TRUE,
                    rnd |-> n],
                   [api |-> Failed, scrape |-> Answered(l), cards |-> l, token |-> TRUE,
                    rnd |-> n],
                   [api |-> Failed, scrape |-> Answered(<<>>), cards |-> l, token |-> TRUE,
                    rnd |-> n],
                   [api |-> Answered(l), scrape |-> Failed, cards |-> <<>>, token |-> FALSE,
                    rnd |-> n],
                   AllFail(n)} : l \in RawListings, n \in Rnds}]

NoCall ==
    [adapter |-> "", query |-> "", filters |-> [minPrice |-> <<>>, maxPrice |-> <<>>,
     minRating |-> <<>>, category |-> <<>>, page |-> <<>>, limit |-> <<>>],
     env |-> {}, up |-> AllFail(Rnd(0, <<0>>))]

NotRun == [done |-> FALSE, products |-> <<>>]

Returned(list) == [done |-> TRUE, products |-> list]

(***************************************************************************)
(* Actions.                                                                *)
(***************************************************************************)
\* One request to GET /api/products/search, answered start to end.
Search(u, r, up, fault) ==
    /\ response = NoResponse
    /\ LET out == searchHandler([usage_logs |-> usage_logs, products |-> products,
                                 cache |-> cache, now |-> now, env |-> env],
                                u, r, up, fault)
       IN  /\ usage_logs' = out.usage_logs
           /\ products' = out.products
           /\ cache' = out.cache
           /\ response' = out.response
    /\ UNCHANGED <<now, env, call, result,
                 reqs, tracked, orders,
                   users, stores, imported_products, notifications, subscriptions>>

\* the answer leaves the server
Deliver ==
    /\ response # NoResponse
    /\ response' = NoResponse
    /\ UNCHANGED <<now, usage_logs, products, cache, env, call, result,
                 reqs, tracked, orders,
                   users, stores, imported_products, notifications, subscriptions>>

\* an hour passes; the cache's periodic check deletes what has expired
Tick ==
    /\ response = NoResponse
    /\ now < MaxNow
    /\ now' = now + 1
    /\ cache' = {en \in cache : Alive(en, now + 1)}
    /\ UNCHANGED <<usage_logs, products, response, env, call, result,
                 reqs, tracked, orders,
                   users, stores, imported_products, notifications, subscriptions>>

SearchAny ==
    \E u \in {"alice"}, r \in Requests, up \in RouteUps,
       fault \in {"none", "amazon", "aliexpress", "temu", "ebay"} :
        /\ currentCount(usage_logs, u, "search", today(now)) < MaxSearches
        /\ Search(u, r, up, fault)

SearchQuota ==
    \E u \in Users, r \in {SearchFor(<<"amazon">>, <<l>>) : l \in {1, 2}}, up \in QuotaUps :
        /\ subscription_tier(u) = "pro" =>
               currentCount(usage_logs, u, "search", today(now)) < MaxProSearches
        /\ Search(u, r, up, "none")

RunAmazon ==
    /\ call.adapter = "amazon" /\ ~result.done
    /\ result' = Returned(searchAmazon(call.query, call.filters, call.env, call.up))
    /\ UNCHANGED <<now, usage_logs, products, cache, response, env, call,
                 reqs, tracked, orders,
                   users, stores, imported_products, notifications, subscriptions>>

RunAliExpress ==
    /\ call.adapter = "aliexpress" /\ ~result.done
    /\ result' = Returned(searchAliExpress(call.query, call.filters, call.env, call.up))
    /\ UNCHANGED <<now, usage_logs, products, cache, response, env, call,
                 reqs, tracked, orders,
                   users, stores, imported_products, notifications, subscriptions>>

RunTemu ==
    /\ call.adapter = "temu" /\ ~result.done
    /\ result' = Returned(searchTemu(call.query, call.filters, call.up, now))
    /\ UNCHANGED <<now, usage_logs, products, cache, response, env, call,
                 reqs, tracked, orders,
                   users, stores, imported_products, notifications, subscriptions>>

RunEbay ==
    /\ call.adapter = "ebay" /\ ~result.done
    /\ result' = Returned(searchEbay(call.query, call.filters, call.env, call.up))
    /\ UNCHANGED <<now, usage_logs, products, cache, response, env, call,
                 reqs, tracked, orders,
                   users, stores, imported_products, notifications, subscriptions>>

(***************************************************************************)
(* Specifications.                                                         *)
(***************************************************************************)
InitRoute(envs) ==
    /\ now = 0
    /\ usage_logs = {}
    /\ products = <<>>
    /\ cache = {}
    /\ response = NoResponse
    /\ env \in envs
    /\ call = NoCall
    /\ result = NotRun
    /\ reqs = NoReqs
    /\ tracked = 0
    /\ orders = <<>>
    /\ users = <<>>
    /\ stores = {}
    /\ imported_products = {}
    /\ notifications = {}
    /\ subscriptions = {}

\* the aggregation route, every source and fault, within one hour
Init == InitRoute({{}, {"amazon", "aliexpress", "ebay"}})

Next == SearchAny \/ Deliver

Spec == Init /\ [][Next]_vars

\* the quota over more than a day, one search shape
InitQuota == InitRoute({{}})

NextQuota == SearchQuota \/ Deliver \/ Tick

SpecQuota == InitQuota /\ [][NextQuota]_vars

\* one call of one adapter
InitAdapters ==
    /\ now = 0
    /\ usage_logs = {}
    /\ products = <<>>
    /\ cache = {}
    /\ response = NoResponse
    /\ env = {}
    /\ call \in AdapterCalls
    /\ result = NotRun
    /\ reqs = NoReqs
    /\ tracked = 0
    /\ orders = <<>>
    /\ users = <<>>
    /\ stores = {}
    /\ imported_products = {}
    /\ notifications = {}
    /\ subscriptions = {}

NextAdapters == RunAmazon \/ RunAliExpress \/ RunTemu \/ RunEbay

SpecAdapters == InitAdapters /\ [][NextAdapters]_vars

(***************************************************************************)
(* Properties.                                                             *)
(***************************************************************************)
\* a request is answered in this step
Answers == response = NoResponse /\ response' # NoResponse

\* the search count of user u on the UTC day of hour `at`
SearchesToday(u) == currentCount(usage_logs, u, "search", today(now))

\* C3: every item an adapter's search returns has minPrice <= price when
\* minPrice is given and price <= maxPrice when maxPrice is given, for every
\* source and every path (official API, scraping, mock).
C3_PriceWithinFilters ==
    result.done =>
        \A i \in 1..Len(result.products) :
            /\ Has(call.filters.minPrice) =>
                   Cents(Val(call.filters.minPrice)) <= result.products[i].price
            /\ Has(call.filters.maxPrice) =>
                   result.products[i].price <= Cents(Val(call.filters.maxPrice))

\* C8: when minRating is given, every item an adapter's search returns has
\* rating >= minRating, for every source.
C8_RatingAtLeastMin ==
    (result.done /\ Has(call.filters.minRating)) =>
        \A i \in 1..Len(result.products) :
            result.products[i].rating >= Tenths(Val(call.filters.minRating))

\* the adapters a request for `source` asks for
Requested(source) == {n \in AdapterNames : source = "all" \/ source = n}

C6_AtMostLimitFromSource ==
    (response.status = 200 /\ Has(response.req.limit)
        /\ OrDefault(response.req.source, "all") # "all") =>
        /\ Len(response.data.products) <= Val(response.req.limit)
        /\ \A i \in 1..Len(response.data.products) :
               response.data.products[i].source = Val(response.req.source)

\* C7: requests that differ in one of q, source, minPrice, maxPrice, minRating,
\* category, page or limit share no cache entry: an answer served from the
\* cache was computed for the asking request's own parameters, so it carries
\* that request's page and limit and only products of the sources it asks for.
C7_CachedAnswerIsOwn ==
    (response.status = 200 /\ response.cached) =>
        /\ response.data.pagination.page = OrDefault(response.req.page, 1)
        /\ response.data.pagination.limit = OrDefault(response.req.limit, 20)
        /\ \A i \in 1..Len(response.data.products) :
               response.data.products[i].source
                   \in Requested(OrDefault(response.req.source, "all"))

NoDuplicateRows ==
    \A i, j \in 1..Len(products) :
        (products[i].source = products[j].source
            /\ products[i].external_id = products[j].external_id) => i = j

\* the rows of the table that hold product p's (source, external_id)
RowsOf(p) == {i \in 1..Len(products) : SameKey(products[i], p)}

\* C5: the products table never holds two rows with the same (source,
\* external_id), and a search that returns a product whose row exists leaves
\* that one row carrying the product as last returned.
C5_UpsertKeepsOneRow ==
    /\ NoDuplicateRows
    /\ (response.status = 200 /\ ~response.cached) =>
          LET list == response.data.products
          IN  \A k \in 1..Len(list) :
                 (list[k].source \in SourceCheck
                    /\ \A m \in (k + 1)..Len(list) :
                          ~(list[m].source = list[k].source
                              /\ list[m].externalId = list[k].externalId)) =>
                     \E i \in 1..Len(products) :
                        /\ RowsOf(list[k]) = {i}
                        /\ products[i].price = list[k].price
                        /\ products[i].rating = list[k].rating

\* a second search has returned Amazon item 1 at another price than the search
\* that inserted its row together with item 2
C5_Witness ==
    /\ response.status = 200 /\ ~response.cached
    /\ response.data.products = <<Product("amazon", 1, 3000, 45)>>
    /\ Len(products) = 2
    /\ products[1].source = "amazon" /\ products[1].external_id = 1
    /\ products[1].price = 3000
    /\ products[2].source = "amazon" /\ products[2].external_id = 2

\* the validation failures the route names
FailsValidation(r) ==
    \/ r.q = ""
    \/ (Has(r.source) /\ Val(r.source) \notin {"amazon", "aliexpress", "temu", "ebay", "all"})
    \/ (Has(r.minPrice) /\ Val(r.minPrice) < 0)
    \/ (Has(r.maxPrice) /\ Val(r.maxPrice) < 0)
    \/ (Has(r.minRating) /\ (Val(r.minRating) < 0 \/ Val(r.minRating) > 5))
    \/ (Has(r.page) /\ Val(r.page) < 1)
    \/ (Has(r.limit) /\ (Val(r.limit) < 1 \/ Val(r.limit) > 50))

\* C10: a search whose parameters fail validation is answered 400 and changes
\* neither the usage counter, nor the products table, nor the cache, and calls
\* no adapter.
C10_InvalidRejectedNoEffect ==
    [][(Answers /\ FailsValidation(response'.req)) =>
          /\ response'.status = 400
          /\ response'.invoked = {}
          /\ UNCHANGED <<usage_logs, products, cache>>]_vars

C10_Witness ==
    /\ response.status = 400
    /\ FailsValidation(response.req)
    /\ Val(response.req.limit) = 0
    /\ usage_logs # {}

\* the daily search limit of user u's tier; -1: none
SearchLimit(u) == USAGE_LIMITS[subscription_tier(u)].search

\* user u has used up the day's searches
QuotaSpent(u) == SearchLimit(u) # -1 /\ SearchesToday(u) >= SearchLimit(u)

\* C1: a free-tier user's search is answered 429 with code LIMIT_REACHED once
\* the day's counter has reached the limit of 10, and succeeds while it is
\* below, so again on the first search of the next UTC day.
C1_LimitReachedThenNextDay ==
    [][(Answers /\ validationResult(response'.req)
            /\ subscription_tier(response'.user) = "free") =>
          IF SearchesToday(response'.user) >= 10
          THEN response'.status = 429 /\ response'.code = "LIMIT_REACHED"
          ELSE response'.status = 200]_vars

\* C9: a valid search of a user whose quota check fails is answered 429, calls
\* no adapter, upserts no product, writes no cache entry and leaves the usage
\* counter as it is.
C9_QuotaGatesSearch ==
    [][(Answers /\ validationResult(response'.req) /\ QuotaSpent(response'.user)) =>
          /\ response'.status = 429
          /\ response'.invoked = {}
          /\ UNCHANGED <<usage_logs, products, cache>>]_vars

\* the free user is refused on a day with ten counted searches
C9_Witness ==
    /\ response.status = 429
    /\ response.user = "alice"
    /\ SearchesToday("alice") = 10
    /\ Len(products) = 1

\* the live cache entries a search with request r's parameters has stored
StoredBy(r) ==
    {en \in cache : /\ en.key = cacheKey(r)
                    /\ Alive(en, now)
                    /\ en.v.pagination.page = OrDefault(r.page, 1)
                    /\ en.v.pagination.limit = OrDefault(r.limit, 20)}

\* the answer repeats what entry en holds
ServedFrom(en) ==
    /\ response'.status = 200
    /\ response'.cached
    /\ response'.data = en.v

\* C4 as stated: a search repeated within the hour its cache entry lives is
\* answered with the stored list and cached: true, whoever asks and whatever
\* that user's usage counter holds.
C4_RepeatServedFromCache ==
    [][(Answers /\ StoredBy(response'.req) # {}) =>
          \A en \in StoredBy(response'.req) : ServedFrom(en)]_vars

\* C4, amended: a search repeated within the hour its cache entry lives is
\* answered with the stored list and cached: true for every user whose quota
\* check passes, leaving usage counter, table and cache as they are; a search
\* that finds no live entry stores its answer for one hour.
C4_RepeatServedFromCacheWithinQuota ==
    [][Answers =>
          /\ (StoredBy(response'.req) # {} /\ ~QuotaSpent(response'.user)) =>
                /\ \A en \in StoredBy(response'.req) : ServedFrom(en)
                /\ UNCHANGED <<usage_logs, products, cache>>
          /\ (response'.status = 200 /\ ~response'.cached) =>
                [key |-> cacheKey(response'.req), v |-> response'.data, t |-> now + stdTTL]
                    \in cache']_vars

\* the pro user is served the answer the free user's ninth search of the day
\* stored, in the last hour the entry lives
C4_Witness ==
    /\ response.status = 200 /\ response.cached
    /\ response.user = "bob"
    /\ SearchesToday("bob") = 0
    /\ SearchesToday("alice") = 9
    /\ \E en \in cache : en.key = cacheKey(response.req) /\ en.t = now /\ en.v = response.data

\* C24: a search answered with cached: true has invoked no adapter, has
\* upserted nothing into products and has left every usage counter, the
\* caller's included, as it was.
C24_CacheHitTouchesNothing ==
    [][(Answers /\ response'.cached) =>
          /\ response'.invoked = {}
          /\ UNCHANGED <<products, usage_logs>>
          /\ currentCount(usage_logs', response'.user, "search", today(now))
                 = SearchesToday(response'.user)]_vars

\* a cached answer to a user who has searched today, with rows in the table
C24_Witness ==
    /\ response.status = 200 /\ response.cached
    /\ products # <<>>
    /\ SearchesToday(response.user) > 0

(***************************************************************************)
(* Overlapping requests to GET /api/products/search.  The handler gives up *)
(* control at every await: a request is a process that moves through the   *)
(* quota read, the cache lookup, the aggregation with its upserts, the     *)
(* read of trackUsage, the write of trackUsage and the answer.             *)
(***************************************************************************)
\* trackUsage up to its first await: the row .single() finds, {} for null
trackUsageRead(logs, userId, action, at) == usageRow(logs, userId, action, today(at))

\* trackUsage after the read: update({ count: existing.count + 1 }).eq('id', existing.id),
\* or insert, which UNIQUE(user_id, action, date) refuses when the row exists by now
trackUsageWrite(logs, existing, userId, action, at) ==
    IF existing # {}
    THEN LET was == CHOOSE l \in existing : TRUE
         IN  {IF l.user_id = was.user_id /\ l.action = was.action /\ l.date = was.date
              THEN [l EXCEPT !.count = was.count + 1] ELSE l : l \in logs}
    ELSE IF \E l \in logs : l.user_id = userId /\ l.action = action /\ l.date = today(at)
    THEN logs
    ELSE logs \cup {[user_id |-> userId, action |-> action, date |-> today(at), count |-> 1]}

\* the user whose requests overlap
RaceUser == "alice"

\* request p asks for page p, so that no two requests share a cache key
RaceRequest(p) == [SearchFor(<<"amazon">>, <<1>>) EXCEPT !.page = <<p>>]

\* what request p answers once aggregated
RaceResult(p) ==
    LET r == RaceRequest(p)
        up == AllAnswer(<<Item(1, 3000, 45)>>, Rnd(300, <<0, 8>>))
        got == aggregate(AdapterOrder, [products |-> <<>>, invoked |-> {}],
                         OrDefault(r.source, "all"), r.q, filtersOf(r), env, up, "none", now)
    IN  [products |-> got.products,
         pagination |-> [page |-> OrDefault(r.page, 1), limit |-> OrDefault(r.limit, 20),
                         total |-> Len(got.products),
                         hasMore |-> Len(got.products) = OrDefault(r.limit, 20)]]

\* await checkUsageLimit(...): the count is read and the request admitted or refused
ReqCheck(p) ==
    /\ reqs[p].pc = "idle"
    /\ reqs' = [reqs EXCEPT ![p] =
           [pc |-> IF checkUsageLimit(usage_logs, RaceUser, "search",
                                      subscription_tier(RaceUser), now)
                   THEN "admitted" ELSE "rejected",
            seen |-> <<currentCount(usage_logs, RaceUser, "search", today(now))>>,
            existing |-> {}]]
    /\ UNCHANGED <<now, usage_logs, products, cache, response, env, call, result,
                   tracked, orders,
                   users, stores, imported_products, notifications, subscriptions>>

\* cache.get(cacheKey): a hit is answered at once
ReqLookup(p) ==
    /\ reqs[p].pc = "admitted"
    /\ reqs' = [reqs EXCEPT ![p].pc =
           IF cacheGet(cache, cacheKey(RaceRequest(p)), now) # <<>>
           THEN "servedCached" ELSE "aggregating"]
    /\ UNCHANGED <<now, usage_logs, products, cache, response, env, call, result,
                   tracked, orders,
                   users, stores, imported_products, notifications, subscriptions>>

\* the adapters are awaited and every product upserted
ReqAggregate(p) ==
    /\ reqs[p].pc = "aggregating"
    /\ products' = upsertAll(products, RaceResult(p).products, now)
    /\ reqs' = [reqs EXCEPT ![p].pc = "tracking"]
    /\ UNCHANGED <<now, usage_logs, cache, response, env, call, result, tracked, orders,
                   users, stores, imported_products, notifications, subscriptions>>

TrackRead(p) ==
    /\ reqs[p].pc = "tracking"
    /\ reqs' = [reqs EXCEPT ![p].pc = "writing",
                            ![p].existing = trackUsageRead(usage_logs, RaceUser, "search", now)]
    /\ UNCHANGED <<now, usage_logs, products, cache, response, env, call, result,
                   tracked, orders,
                   users, stores, imported_products, notifications, subscriptions>>

\* tracked counts the trackUsage calls that have completed
TrackWrite(p) ==
    /\ reqs[p].pc = "writing"
    /\ usage_logs' = trackUsageWrite(usage_logs, reqs[p].existing, RaceUser, "search", now)
    /\ tracked' = tracked + 1
    /\ reqs' = [reqs EXCEPT ![p].pc = "answering"]
    /\ UNCHANGED <<now, products, cache, response, env, call, result, orders,
                   users, stores, imported_products, notifications, subscriptions>>

\* cache.set(cacheKey, result); res.json(...)
ReqAnswer(p) ==
    /\ reqs[p].pc = "answering"
    /\ cache' = cacheSet(cache, cacheKey(RaceRequest(p)), RaceResult(p), now)
    /\ reqs' = [reqs EXCEPT ![p].pc = "served"]
    /\ UNCHANGED <<now, usage_logs, products, response, env, call, result, tracked, orders,
                   users, stores, imported_products, notifications, subscriptions>>

InitRace ==
    /\ now = 0
    \* the day's counter row when the requests arrive
    /\ usage_logs \in
          {{}} \cup {{[user_id |-> RaceUser, action |-> "search", date |-> 0, count |-> c]} :
                        c \in 1..USAGE_LIMITS.free.search}
    /\ products = <<>>
    /\ cache = {}
    /\ response = NoResponse
    /\ env = {}
    /\ call = NoCall
    /\ result = NotRun
    /\ reqs = NoReqs
    /\ tracked = currentCount(usage_logs, RaceUser, "search", today(now))
    /\ orders = <<>>
    /\ users = <<>>
    /\ stores = {}
    /\ imported_products = {}
    /\ notifications = {}
    /\ subscriptions = {}

NextRace ==
    \E p \in Procs :
        \/ ReqCheck(p)
        \/ ReqLookup(p)
        \/ ReqAggregate(p)
        \/ TrackRead(p)
        \/ TrackWrite(p)
        \/ ReqAnswer(p)

SpecRace == InitRace /\ [][NextRace]_vars

\* request p has passed the quota check
Admitted(p) ==
    reqs[p].pc \in {"admitted", "aggregating", "tracking", "writing", "answering",
                    "served", "servedCached"}

\* the trackUsage call of request p completes in this step
Tracks(p) == reqs[p].pc = "writing" /\ reqs'[p].pc = "answering"

\* C11: every search call that runs the aggregation raises the caller's
\* (user, 'search', today) count by exactly one, whatever it aggregated.
C11_OneIncrementPerSearch ==
    [][\A p \in Procs :
          Tracks(p) => SearchesToday(RaceUser)' = SearchesToday(RaceUser) + 1]_vars

\* C15: a request is admitted on the count it read alone, so requests that
\* overlap are all admitted on the same count below the limit, and with
\* MaxRequests of them in flight up to MaxRequests - 1 calls beyond the limit
\* are served in one day.
C15_AdmittedOnCountRead ==
    /\ \A p \in Procs : Admitted(p) => Val(reqs[p].seen) < USAGE_LIMITS.free.search
    /\ tracked <= USAGE_LIMITS.free.search + MaxRequests - 1

\* two requests that both read limit - 1 have both been served: eleven
\* searches in the day
C15_Witness ==
    /\ reqs[1].pc = "served" /\ reqs[1].seen = <<USAGE_LIMITS.free.search - 1>>
    /\ reqs[2].pc = "served" /\ reqs[2].seen = <<USAGE_LIMITS.free.search - 1>>
    /\ tracked = USAGE_LIMITS.free.search + 1

\* C16: once n trackUsage calls of a user and action have completed on a day
\* and none is under way, there is exactly one usage_logs row for (user,
\* action, date) and its count is n.
C16_OneRowCountsCalls ==
    ((\A p \in Procs : reqs[p].pc # "writing") /\ tracked > 0) =>
        \E l \in usage_logs :
            /\ {k \in usage_logs : k.user_id = RaceUser /\ k.action = "search"
                                   /\ k.date = today(now)} = {l}
            /\ l.count = tracked

(***************************************************************************)
(* The quota check on its own: one call of checkUsageLimit and of the gate *)
(* the search, import and AI analysis routes put behind it.                *)
(***************************************************************************)
\* highest count of a usage row the check is given
MaxCount == 12

\* if (!usageAllowed) throw new AppError(..., 429, 'LIMIT_REACHED'): the status
\* the gate answers with, 0 when the request goes on
quotaGate(logs, userId, action, tier, at) ==
    IF ~checkUsageLimit(logs, userId, action, tier, at)
    THEN errorHandler(AppError("Daily limit reached.", 429, "LIMIT_REACHED")).status
    ELSE 0

RunCheck ==
    /\ ~result.done
    /\ result' = [done |-> TRUE,
                  allowed |-> checkUsageLimit(usage_logs, call.userId, call.action,
                                              call.tier, now),
                  status |-> quotaGate(usage_logs, call.userId, call.action, call.tier, now)]
    /\ UNCHANGED <<now, usage_logs, products, cache, response, env, call,
                   reqs, tracked, orders,
                   users, stores, imported_products, notifications, subscriptions>>

InitLimit ==
    /\ now = 0
    \* req.user.subscription_tier as the users table may hold it
    /\ call \in [userId : {"alice"}, action : {"search", "import", "ai_analysis"},
                  tier : {"free", "pro", "enterprise", "basic"}]
    /\ usage_logs \in
          {{}} \cup {{[user_id |-> call.userId, action |-> call.action, date |-> 0,
                       count |-> n]} : n \in 1..MaxCount}
    /\ products = <<>>
    /\ cache = {}
    /\ response = NoResponse
    /\ env = {}
    /\ result = NotRun
    /\ reqs = NoReqs
    /\ tracked = 0
    /\ orders = <<>>
    /\ users = <<>>
    /\ stores = {}
    /\ imported_products = {}
    /\ notifications = {}
    /\ subscriptions = {}

NextLimit == RunCheck

SpecLimit == InitLimit /\ [][NextLimit]_vars

\* the count of the call's usage row
CountGiven == currentCount(usage_logs, call.userId, call.action, today(now))

\* C12: for the pro tier checkUsageLimit returns true for search, import and
\* ai_analysis whatever the count, so the gate never answers 429; a tier the
\* table does not know is held to the free tier's limit.
C12_ProUnlimitedUnknownFree ==
    result.done =>
        /\ call.tier = "pro" => (result.allowed /\ result.status # 429)
        /\ call.tier \notin {"free", "pro"} =>
               /\ result.allowed = (CountGiven < USAGE_LIMITS.free[call.action])
               /\ (result.status = 429) = ~result.allowed

\* a pro user with more searches than the free limit is let through
C12_Witness ==
    /\ result.done /\ result.allowed
    /\ call.tier = "pro" /\ call.action = "search"
    /\ CountGiven > USAGE_LIMITS.free.search

(***************************************************************************)
(* How an adapter call ends.  A call returns a value or throws; `stages`   *)
(* lists in order what it attempted: "token" and "api" for requests to the *)
(* official API, "scrape" for the search page, "mock" for generated        *)
(* records and "empty" for the [] of a failure branch.  `bad` names the    *)
(* stages whose answer cannot be parsed.                                   *)
(***************************************************************************)
Return(v, st) == [threw |-> FALSE, value |-> v, stages |-> st]

Throw(st) == [threw |-> TRUE, value |-> <<>>, stages |-> st]

\* a try block without its catch
Catch_rethrow(body, handler) == body

\* try { body } catch (error) { handler }
Catch(body, handler) ==
    IF body.threw THEN [handler EXCEPT !.stages = body.stages \o @] ELSE body

\* the API request and the parse of its answer, neither guarded inside
searchAmazonAPIRun(query, filters, up, bad) ==
    IF ~up.api.ok \/ "api" \in bad THEN Throw(<<"api">>)
    ELSE Return(searchAmazonAPI(query, filters, up), <<"api">>)

scrapeAmazonProductsRun(query, filters, up, bad) ==
    Catch(IF ~up.scrape.ok \/ "scrape" \in bad THEN Throw(<<"scrape">>)
          ELSE Return(scrapeAmazonProducts(query, filters, up.scrape), <<"scrape">>),
          Return(<<>>, <<"empty">>))

\* a search that calls the API whether or not credentials are configured
searchAmazonRun_alwaysApi(query, filters, e, up, bad) ==
    Catch(searchAmazonAPIRun(query, filters, up, bad),
          scrapeAmazonProductsRun(query, filters, up, bad))

searchAmazonRun(query, filters, e, up, bad) ==
    IF "amazon" \in e
    THEN Catch(searchAmazonAPIRun(query, filters, up, bad),
               scrapeAmazonProductsRun(query, filters, up, bad))
    ELSE scrapeAmazonProductsRun(query, filters, up, bad)

searchAliExpressAPIRun(query, filters, up, bad) ==
    IF ~up.api.ok \/ "api" \in bad THEN Throw(<<"api">>)
    ELSE Return(searchAliExpressAPI(query, filters, up), <<"api">>)

scrapeAliExpressProductsRun(query, filters, up, bad) ==
    Catch(IF ~up.scrape.ok \/ "scrape" \in bad THEN Throw(<<"scrape">>)
          ELSE Return(scrapeAliExpressProducts(query, filters, up), <<"scrape">>),
          Return(<<>>, <<"empty">>))

searchAliExpressRun(query, filters, e, up, bad) ==
    IF "aliexpress" \in e
    THEN Catch(searchAliExpressAPIRun(query, filters, up, bad),
               scrapeAliExpressProductsRun(query, filters, up, bad))
    ELSE scrapeAliExpressProductsRun(query, filters, up, bad)

\* both the try block and its catch return the mock records
searchTemuRun(query, filters, up, at) ==
    Catch(Return(getMockTemuProducts(query, filters, up, at), <<"mock">>),
          Return(getMockTemuProducts(query, filters, up, at), <<"mock">>))

\* value: the token was obtained
getEbayTokenRun(e, up) ==
    IF "ebay" \notin e THEN Return(FALSE, <<>>)
    ELSE Catch(IF ~up.token THEN Throw(<<"token">>) ELSE Return(TRUE, <<"token">>),
               Return(FALSE, <<>>))

searchEbayRun(query, filters, e, up, bad) ==
    LET token == getEbayTokenRun(e, up)
    IN  IF token.threw THEN token
        ELSE IF ~token.value THEN Return(<<>>, token.stages \o <<"empty">>)
        ELSE Catch(IF ~up.api.ok \/ "api" \in bad THEN Throw(token.stages \o <<"api">>)
                   ELSE Return(parseEbayResponse(
                                   SubSeq(up.api.items, 1,
                                          Min(Len(up.api.items), OrDefault(filters.limit, 20))),
                                   filters),
                               token.stages \o <<"api">>),
                   Return(<<>>, <<"empty">>))

\* the calls the fallback specification starts from: what the outside answers
\* (up) and which stages break while handling the answer (bad)
FallbackCalls ==
    [adapter : AdapterNames, query : {"earbuds"},
     filters : [minPrice : {<<>>}, maxPrice : {<<>>, <<50>>}, minRating : {<<>>},
                category : {<<>>}, page : {<<1>>}, limit : {<<2>>}],
     env : AdapterEnvs,
     up : UNION {
              {AllAnswer(l, Rnd(300, <<0, 8>>)),
               [api |-> Answered(l), scrape |-> Failed, cards |-> <<>>, token |-> TRUE,
                rnd |-> Rnd(300, <<0, 8>>)],
               [api |-> Failed, scrape |-> Answered(l), cards |-> l, token |-> TRUE,
                rnd |-> Rnd(300, <<0, 8>>)],
               [api |-> Answered(l), scrape |-> Answered(l), cards |-> l, token |-> FALSE,
                rnd |-> Rnd(300, <<0, 8>>)],
               AllFail(Rnd(300, <<0, 8>>))} : l \in RouteListings \cup {<<>>}},
     bad : SUBSET {"api", "scrape"}]

Ended(o) == [done |-> TRUE, threw |-> o.threw, value |-> o.value, stages |-> o.stages]

EndAmazon ==
    /\ call.adapter = "amazon" /\ ~result.done
    /\ result' = Ended(searchAmazonRun(call.query, call.filters, call.env, call.up, call.bad))
    /\ UNCHANGED <<now, usage_logs, products, cache, response, env, call,
                   reqs, tracked, orders,
                   users, stores, imported_products, notifications, subscriptions>>

EndAliExpress ==
    /\ call.adapter = "aliexpress" /\ ~result.done
    /\ result' = Ended(searchAliExpressRun(call.query, call.filters, call.env, call.up,
                                           call.bad))
    /\ UNCHANGED <<now, usage_logs, products, cache, response, env, call,
                   reqs, tracked, orders,
                   users, stores, imported_products, notifications, subscriptions>>

EndTemu ==
    /\ call.adapter = "temu" /\ ~result.done
    /\ result' = Ended(searchTemuRun(call.query, call.filters, call.up, now))
    /\ UNCHANGED <<now, usage_logs, products, cache, response, env, call,
                   reqs, tracked, orders,
                   users, stores, imported_products, notifications, subscriptions>>

EndEbay ==
    /\ call.adapter = "ebay" /\ ~result.done
    /\ result' = Ended(searchEbayRun(call.query, call.filters, call.env, call.up, call.bad))
    /\ UNCHANGED <<now, usage_logs, products, cache, response, env, call,
                   reqs, tracked, orders,
                   users, stores, imported_products, notifications, subscriptions>>

InitFallback ==
    /\ now = 0
    /\ usage_logs = {}
    /\ products = <<>>
    /\ cache = {}
    /\ response = NoResponse
    /\ env = {}
    /\ call \in FallbackCalls
    /\ result = NotRun
    /\ reqs = NoReqs
    /\ tracked = 0
    /\ orders = <<>>
    /\ users = <<>>
    /\ stores = {}
    /\ imported_products = {}
    /\ notifications = {}
    /\ subscriptions = {}

NextFallback == EndAmazon \/ EndAliExpress \/ EndTemu \/ EndEbay

SpecFallback == InitFallback /\ [][NextFallback]_vars

\* the value the adapter's search function computes from the same answers
ValueOf(c) ==
    callAdapter(c.adapter, c.query, c.filters, c.env,
                [c.up EXCEPT !.api.ok = @ /\ "api" \notin c.bad,
                             !.scrape.ok = @ /\ "scrape" \notin c.bad], now)

\* C13: whatever fails inside an adapter's search function (API call, token
\* request, scrape request, parsing), the call returns an array and throws
\* nothing to its caller.
C13_AdaptersNeverThrow ==
    result.done =>
        /\ ~result.threw
        /\ result.value \in Seq(Range(result.value))
        /\ result.value = ValueOf(call)

\* every upstream request of the Amazon adapter has failed and [] is returned
C13_Witness ==
    /\ result.done /\ ~result.threw /\ result.value = <<>>
    /\ call.adapter = "amazon" /\ "amazon" \in call.env
    /\ ~call.up.api.ok /\ ~call.up.scrape.ok
    /\ result.stages = <<"api", "scrape", "empty">>

Credentials == call.adapter \in call.env

Attempted(stage) == \E i \in 1..Len(result.stages) : result.stages[i] = stage

\* the official API was tried and the result does not come from it
ApiFailed ==
    /\ Attempted("api") \/ Attempted("token")
    /\ result.stages[Len(result.stages)] # "api"

LastResort == result.stages[Len(result.stages)] \in {"mock", "empty"}

C18_ReturnedProductsHaveRows ==
    (response.status = 200 /\ ~response.cached) =>
        \A k \in 1..Len(response.data.products) :
            \E i \in 1..Len(products) : SameKey(products[i], response.data.products[k])

(***************************************************************************)
(* The orders table with its BEFORE INSERT OR UPDATE trigger.  A row holds *)
(* total_amount, cost_of_goods, shipping_cost and profit, each <<>> for    *)
(* NULL or <<cents>>.                                                      *)
(***************************************************************************)
\* rows the orders table holds at most
MaxOrders == 1

\* the trigger without COALESCE(NEW.shipping_cost, 0)
calculate_order_profit_noShipping(new) ==
    IF Has(new.total_amount) /\ Has(new.cost_of_goods)
    THEN [new EXCEPT !.profit = <<Val(new.total_amount) - Val(new.cost_of_goods)>>]
    ELSE new

\* calculate_order_profit(): NEW as the trigger returns it
calculate_order_profit(new) ==
    IF Has(new.total_amount) /\ Has(new.cost_of_goods)
    THEN [new EXCEPT !.profit = <<Val(new.total_amount) - Val(new.cost_of_goods)
                                    - OrDefault(new.shipping_cost, 0)>>]
    ELSE new

OrderColumns == {"total_amount", "cost_of_goods", "shipping_cost", "profit"}

\* what a write may put into a column
OrderValues(col) ==
    CASE col = "total_amount" -> {<<>>, <<2500>>, <<4000>>}
      [] col = "cost_of_goods" -> {<<>>, <<1000>>, <<3000>>}
      [] col = "shipping_cost" -> {<<>>, <<500>>}
      [] col = "profit" -> {<<>>, <<999>>}

\* INSERT INTO orders: `call` keeps the row as the statement wrote it
InsertOrder(new) ==
    /\ Len(orders) < MaxOrders
    /\ orders' = Append(orders, calculate_order_profit(new))
    /\ call' = [kind |-> "insert", at |-> Len(orders) + 1, new |-> new]
    /\ UNCHANGED <<now, usage_logs, products, cache, response, env, result, reqs, tracked,
                   users, stores, imported_products, notifications, subscriptions>>

\* UPDATE orders SET col = v WHERE id = ...: NEW is the old row with the column set
UpdateOrder(i, col, v) ==
    /\ i \in 1..Len(orders)
    /\ LET new == [orders[i] EXCEPT ![col] = v]
       IN  /\ orders' = [orders EXCEPT ![i] = calculate_order_profit(new)]
           /\ call' = [kind |-> "update", at |-> i, new |-> new]
    /\ UNCHANGED <<now, usage_logs, products, cache, response, env, result, reqs, tracked,
                   users, stores, imported_products, notifications, subscriptions>>

InitOrders ==
    /\ now = 0
    /\ usage_logs = {}
    /\ products = <<>>
    /\ cache = {}
    /\ response = NoResponse
    /\ env = {}
    /\ call = [kind |-> "", at |-> 0, new |-> [c \in OrderColumns |-> <<>>]]
    /\ result = NotRun
    /\ reqs = NoReqs
    /\ tracked = 0
    /\ orders = <<>>
    /\ users = <<>>
    /\ stores = {}
    /\ imported_products = {}
    /\ notifications = {}
    /\ subscriptions = {}

NextOrders ==
    \/ \E new \in [total_amount : OrderValues("total_amount"),
                    cost_of_goods : OrderValues("cost_of_goods"),
                    shipping_cost : OrderValues("shipping_cost"),
                    profit : OrderValues("profit")] : InsertOrder(new)
    \/ \E i \in 1..MaxOrders, col \in OrderColumns : \E v \in OrderValues(col) :
           UpdateOrder(i, col, v)

SpecOrders == InitOrders /\ [][NextOrders]_vars

\* total_amount - cost_of_goods - shipping_cost, a null shipping_cost counting as 0
ProfitOf(row) ==
    Val(row.total_amount) - Val(row.cost_of_goods)
        - (IF row.shipping_cost = <<>> THEN 0 ELSE Val(row.shipping_cost))

\* C19: every stored order with total_amount and cost_of_goods non-null has
\* profit = total_amount - cost_of_goods - shipping_cost (null counting as 0),
\* whatever profit the write supplied; the row last written with either of
\* them null holds the profit as written, and the other columns are always
\* stored as written.
C19_ProfitFromTrigger ==
    /\ \A i \in 1..Len(orders) :
          (orders[i].total_amount # <<>> /\ orders[i].cost_of_goods # <<>>) =>
              orders[i].profit = <<ProfitOf(orders[i])>>
    /\ call.kind # "" =>
          /\ \A col \in OrderColumns \ {"profit"} : orders[call.at][col] = call.new[col]
          /\ (call.new.total_amount = <<>> \/ call.new.cost_of_goods = <<>>) =>
                 orders[call.at].profit = call.new.profit

\* an update that supplies a profit of 9.99 to an order with total 25.00, cost
\* 10.00 and shipping 5.00 leaves the profit at 10.00
C19_Witness ==
    /\ call.kind = "update"
    /\ call.new = [total_amount |-> <<2500>>, cost_of_goods |-> <<1000>>,
                   shipping_cost |-> <<500>>, profit |-> <<999>>]
    /\ orders[call.at].profit = <<1000>>

(***************************************************************************)
(* AI scores: POST /api/products/:id/analyze, POST /api/ai/analyze and GET *)
(* /api/products/winning over the products table.  A row's id is its       *)
(* position in the table; the score an analysis yields is an input.        *)
(***************************************************************************)
\* rows of the products table the scoring specification starts from
MaxCatalog == 2

\* scores analyzeProduct may yield; 101 is outside the column's CHECK
AiScores == {0, 60, 70, 101}

\* .update({ ai_score, ai_analysis, is_winning: analysis.score >= 70 }).eq('id', id);
\* a score the CHECK (ai_score >= 0 AND ai_score <= 100) refuses leaves the row
applyAnalysis(table, id, score) ==
    IF score < 0 \/ score > 100 THEN table
    ELSE [table EXCEPT ![id].ai_score = <<score>>,
                       ![id].ai_analysis = <<[score |-> score]>>,
                       ![id].is_winning = (score >= 70)]

\* .order('ai_score', { ascending: false }).limit(n) over the rows ids names
RECURSIVE TopByScore(_, _, _)
TopByScore(table, ids, n) ==
    IF ids = {} \/ n = 0 THEN <<>>
    ELSE LET best == CHOOSE i \in ids :
                        \A j \in ids : \/ Val(table[i].ai_score) > Val(table[j].ai_score)
                                       \/ (Val(table[i].ai_score) = Val(table[j].ai_score)
                                              /\ i <= j)
         IN  <<table[best]>> \o TopByScore(table, ids \ {best}, n - 1)

\* the for loop of getWinningProducts: row i is analysed with score scores[i]
RECURSIVE analyzeAll(_, _, _)
analyzeAll(table, ids, scores) ==
    IF ids = {} THEN table
    ELSE LET i == CHOOSE k \in ids : \A m \in ids : k <= m
         IN  analyzeAll(applyAnalysis(table, i, scores[i]), ids \ {i}, scores)

\* getWinningProducts(category, limit): the table it leaves and the list it returns
getWinningProducts(table, scores, limit) ==
    IF Len(table) = 0 THEN [table |-> table, list |-> <<>>]
    ELSE LET \* productsToAnalyze: rows whose score counts as missing, !p.ai_score
             productsToAnalyze == {i \in 1..Len(table) : \/ ~Has(table[i].ai_score)
                                                         \/ Val(table[i].ai_score) = 0}
             after == analyzeAll(table, productsToAnalyze, scores)
         IN  [table |-> after,
              list |-> TopByScore(after,
                                  {i \in 1..Len(after) : /\ Has(after[i].ai_score)
                                                         /\ Val(after[i].ai_score) >= 60},
                                  limit)]

\* requireSubscription('pro')
requireSubscription(u, requiredTier) ==
    LET tierLevels == [free |-> 0, pro |-> 1]
        level(t) == IF t \in DOMAIN tierLevels THEN tierLevels[t] ELSE 0
    IN  level(subscription_tier(u)) >= level(requiredTier)

ListAnswer(u, status, code, list) ==
    Answer(u, NoRequest, status, code, FALSE, [products |-> list, pagination |-> NoPagination])

\* POST /api/products/:id/analyze
AnalyzeProduct(u, id, score) ==
    /\ call' = [route |-> "products/analyze", user |-> u, id |-> id]
    /\ IF ~requireSubscription(u, "pro")
       THEN /\ response' = ListAnswer(u, 403, "SUBSCRIPTION_REQUIRED", <<>>)
            /\ UNCHANGED products
       ELSE IF id \notin 1..Len(products)
       THEN /\ response' = ListAnswer(u, 404, "NOT_FOUND", <<>>)
            /\ UNCHANGED products
       ELSE /\ products' = applyAnalysis(products, id, score)
            /\ response' = ListAnswer(u, 200, "", <<>>)
    /\ UNCHANGED <<now, usage_logs, cache, env, result, reqs, tracked, orders,
                   users, stores, imported_products, notifications, subscriptions>>

\* POST /api/ai/analyze
AiAnalyze(u, id, score) ==
    /\ call' = [route |-> "ai/analyze", user |-> u, id |-> id]
    /\ IF quotaGate(usage_logs, u, "ai_analysis", subscription_tier(u), now) = 429
       THEN /\ response' = ListAnswer(u, 429, "RATE_LIMIT", <<>>)
            /\ UNCHANGED <<products, usage_logs>>
       ELSE IF id \notin 1..Len(products)
       THEN /\ response' = ListAnswer(u, 404, "SERVER_ERROR", <<>>)
            /\ UNCHANGED <<products, usage_logs>>
       ELSE /\ products' = applyAnalysis(products, id, score)
            /\ usage_logs' = trackUsage(usage_logs, u, "ai_analysis", now)
            /\ response' = ListAnswer(u, 200, "", <<>>)
    /\ UNCHANGED <<now, cache, env, result, reqs, tracked, orders,
                   users, stores, imported_products, notifications, subscriptions>>

\* GET /api/products/winning
GetWinning(u, scores) ==
    /\ call' = [route |-> "products/winning", user |-> u, id |-> 0]
    /\ IF subscription_tier(u) = "free"
       THEN \* the free tier's list: .eq('is_winning', true), best score first, ten at most
            /\ response' = ListAnswer(u, 200, "",
                                TopByScore(products,
                                           {i \in 1..Len(products) :
                                               /\ products[i].is_winning
                                               /\ Has(products[i].ai_score)},
                                           10))
            /\ UNCHANGED products
       ELSE LET got == getWinningProducts(products, scores, 20)
            IN  /\ products' = got.table
                /\ response' = ListAnswer(u, 200, "", got.list)
    /\ UNCHANGED <<now, usage_logs, cache, env, result, reqs, tracked, orders,
                   users, stores, imported_products, notifications, subscriptions>>

\* a later search returns the product again and upserts its row
Recache(id, price) ==
    /\ id \in 1..Len(products)
    /\ call' = [route |-> "products/search", user |-> "", id |-> id]
    /\ products' = upsert(products,
                          Product(products[id].source, products[id].external_id, price,
                                  products[id].rating), now)
    /\ UNCHANGED <<now, usage_logs, cache, response, env, result, reqs, tracked, orders,
                   users, stores, imported_products, notifications, subscriptions>>

InitWinning ==
    /\ now = 0
    /\ usage_logs = {}
    \* the rows earlier searches have cached
    /\ products \in {[i \in 1..n |-> RowOf(Product("amazon", i, 3000, 45), 0)] :
                        n \in 0..MaxCatalog}
    /\ cache = {}
    /\ response = NoResponse
    /\ env = {}
    /\ call = [route |-> "", user |-> "", id |-> 0]
    /\ result = NotRun
    /\ reqs = NoReqs
    /\ tracked = 0
    /\ orders = <<>>
    /\ users = <<>>
    /\ stores = {}
    /\ imported_products = {}
    /\ notifications = {}
    /\ subscriptions = {}

NextWinning ==
    \* the score matters only to a request that gets as far as the analysis
    \/ \E u \in Users, id \in 1..(MaxCatalog + 1), score \in AiScores :
           /\ (subscription_tier(u) = "free" \/ id > Len(products)) => score = 0
           /\ AnalyzeProduct(u, id, score)
    \/ \E id \in 1..(MaxCatalog + 1), score \in AiScores :
           /\ id > Len(products) => score = 0
           /\ AiAnalyze("alice", id, score)
    \* scores[i] is what the analysis of row i yields, should the request analyse it
    \/ \E u \in Users, scores \in [1..MaxCatalog -> AiScores] :
           /\ \A i \in 1..MaxCatalog :
                 (\/ subscription_tier(u) = "free"
                  \/ i > Len(products)
                  \/ (Has(products[i].ai_score) /\ Val(products[i].ai_score) # 0))
                     => scores[i] = 0
           /\ GetWinning(u, scores)
    \/ \E id \in 1..MaxCatalog : Recache(id, 2000)

SpecWinning == InitWinning /\ [][NextWinning]_vars

\* C17: is_winning is true exactly for the products with ai_score > 70, and
\* every product GET /products/winning returns has ai_score > 70.
C17_WinningAboveSeventy ==
    /\ \A i \in 1..Len(products) :
          products[i].is_winning <=>
              (Has(products[i].ai_score) /\ Val(products[i].ai_score) > 70)
    /\ (call.route = "products/winning" /\ response.status = 200) =>
          \A k \in 1..Len(response.data.products) :
              /\ Has(response.data.products[k].ai_score)
              /\ Val(response.data.products[k].ai_score) > 70

\* C20: once a product has a non-null ai_score, no later operation changes
\* that score.
C20_ScoreSetOnce ==
    [][\A i \in 1..Len(products) :
          Has(products[i].ai_score) => products'[i].ai_score = products[i].ai_score]_vars

\* C27: the upsert of a search result onto an existing (source, external_id)
\* row leaves the row's ai_score, ai_analysis and is_winning as they were and
\* adds no row.
C27_UpsertKeepsAnalysis ==
    [][call'.route = "products/search" =>
          /\ Len(products') = Len(products)
          /\ \A i \in 1..Len(products) :
                /\ products'[i].ai_score = products[i].ai_score
                /\ products'[i].ai_analysis = products[i].ai_analysis
                /\ products'[i].is_winning = products[i].is_winning]_vars

\* an analysed product whose row a later search has written again
C27_Witness ==
    /\ call.route = "products/search"
    /\ Has(products[call.id].ai_score) /\ Has(products[call.id].ai_analysis)
    /\ products[call.id].is_winning
    /\ products[call.id].price = 2000

(***************************************************************************)
(* Imports: POST /api/products/import and DELETE /api/products/imported/:id *)
(* over the stores, imported_products and usage_logs tables.  A table is   *)
(* the set of its rows, each with its id.  An import gives up control at   *)
(* every await; it is taken in two steps, up to the read of trackUsage and *)
(* from its write on.                                                      *)
(***************************************************************************)
\* imports that get as far as their insert, at most
MaxImports == 2

\* the id a new row of the table gets
NextId(table) == IF table = {} THEN 1 ELSE 1 + CHOOSE i \in {r.id : r \in table} :
                                                      \A r \in table : r.id <= i

\* the record .insert({...}) writes, as the handler would write it with another status
importedRow_published(u, b, id) ==
    LET sellingPrice == IF Has(b.customPrice) /\ Val(b.customPrice) # 0
                        THEN Val(b.customPrice)
                        ELSE (b.price * (100 + OrDefault(b.markupPercentage, 30))) \div 100
    IN  [id |-> id, user_id |-> u, store_id |-> b.storeId, custom_price |-> sellingPrice,
         cost_price |-> b.price, profit_margin |-> sellingPrice - b.price,
         status |-> "published"]

\* the record .insert({...}) writes: const sellingPrice = customPrice ||
\* (costPrice * (1 + markupPercentage / 100)), status: 'draft'
importedRow(u, b, id) ==
    LET sellingPrice == IF Has(b.customPrice) /\ Val(b.customPrice) # 0
                        THEN Val(b.customPrice)
                        ELSE (b.price * (100 + OrDefault(b.markupPercentage, 30))) \div 100
    IN  [id |-> id, user_id |-> u, store_id |-> b.storeId, custom_price |-> sellingPrice,
         cost_price |-> b.price, profit_margin |-> sellingPrice - b.price,
         status |-> "draft"]

\* POST /api/products/import up to the first await of trackUsage: validation,
\* quota, ownership of the store, the insert (which the database may refuse:
\* refused) and the read of the day's usage row
ImportBegin(p, u, b, refused) ==
    LET invalid == \/ ~b.productData
                   \/ b.storeId = 0
                   \/ (Has(b.customPrice) /\ Val(b.customPrice) < 0)
                   \/ (Has(b.markupPercentage) /\ (Val(b.markupPercentage) < 0
                                                     \/ Val(b.markupPercentage) > 500))
        limited == errorHandler(AppError("Daily import limit reached.", 429, "LIMIT_REACHED"))
        noStore == errorHandler(AppError("Store not found", 404, "STORE_NOT_FOUND"))
        failed == errorHandler(AppError("Failed to import product", 0, ""))
        row == importedRow(u, b, NextId(imported_products))
        end(status, code) ==
            /\ response' = Answer(u, NoRequest, status, code, FALSE, {})
            /\ UNCHANGED <<reqs, imported_products, tracked>>
    IN  /\ reqs[p].pc = "idle"
        /\ tracked < MaxImports
        /\ call' = [route |-> "products/import", user |-> u, id |-> b.storeId]
        /\ IF invalid THEN end(400, "")
           ELSE IF ~checkUsageLimit(usage_logs, u, "import", subscription_tier(u), now)
           THEN end(limited.status, limited.code)
           ELSE IF ~\E s \in stores : s.id = b.storeId /\ s.user_id = u
           THEN end(noStore.status, noStore.code)
           ELSE IF refused THEN end(failed.status, failed.code)
           ELSE /\ imported_products' = imported_products \cup {row}
                /\ tracked' = tracked + 1
                /\ reqs' = [reqs EXCEPT ![p] =
                               [pc |-> "writing", seen |-> <<>>,
                                existing |-> trackUsageRead(usage_logs, u, "import", now),
                                answer |-> Answer(u, NoRequest, 201, "", FALSE, {row})]]
                /\ UNCHANGED response
        /\ UNCHANGED <<now, usage_logs, products, cache, env, result,
                       orders, users, stores, notifications, subscriptions>>

\* the write of trackUsage, then res.status(201).json(...)
ImportEnd(p) ==
    /\ reqs[p].pc = "writing"
    /\ usage_logs' = trackUsageWrite(usage_logs, reqs[p].existing, reqs[p].answer.user,
                                     "import", now)
    /\ response' = reqs[p].answer
    /\ call' = [route |-> "products/import", user |-> reqs[p].answer.user, id |-> 0]
    /\ reqs' = [reqs EXCEPT ![p] = NoReqs[p]]
    /\ UNCHANGED <<now, products, cache, env, result, tracked, orders,
                   users, stores, imported_products, notifications, subscriptions>>

\* DELETE /api/products/imported/:id without the check of ownership
DeleteImported_anyOwner(u, id) ==
    /\ call' = [route |-> "products/imported/delete", user |-> u, id |-> id]
    /\ imported_products' = {r \in imported_products : r.id # id}
    /\ response' = Answer(u, NoRequest, 200, "", FALSE, {})
    /\ UNCHANGED <<now, usage_logs, products, cache, env, result, reqs, tracked,
                   orders, users, stores, notifications, subscriptions>>

\* DELETE /api/products/imported/:id
DeleteImported(u, id) ==
    LET product == {r \in imported_products : r.id = id /\ r.user_id = u}
        missing == errorHandler(AppError("Product not found", 404, "PRODUCT_NOT_FOUND"))
    IN  /\ call' = [route |-> "products/imported/delete", user |-> u, id |-> id]
        /\ IF product = {}
           THEN /\ response' = Answer(u, NoRequest, missing.status, missing.code, FALSE, {})
                /\ UNCHANGED imported_products
           ELSE /\ imported_products' = {r \in imported_products : r.id # id}
                /\ response' = Answer(u, NoRequest, 200, "", FALSE, {})
        /\ UNCHANGED <<now, usage_logs, products, cache, env, result, reqs, tracked,
                       orders, users, stores, notifications, subscriptions>>

InitImport ==
    /\ now = 0
    \* the day's import counter of the free user when the requests arrive
    /\ usage_logs \in
          {{}} \cup {{[user_id |-> "alice", action |-> "import", date |-> 0, count |-> c]} :
                        c \in {4, 5}}
    /\ products = <<>>
    /\ cache = {}
    /\ response = NoResponse
    /\ env = {}
    /\ call = [route |-> "", user |-> "", id |-> 0]
    /\ result = NotRun
    /\ reqs = NoReqs
    /\ tracked = 0
    /\ orders = <<>>
    /\ users = <<>>
    /\ stores = {[id |-> 1, user_id |-> "alice"], [id |-> 2, user_id |-> "bob"]}
    /\ imported_products = {}
    /\ notifications = {}
    /\ subscriptions = {}

NextImport ==
    \* a body that passes validation, in a few shapes, and one failing each rule;
    \* a new request takes the first free slot
    \/ LET ok == [productData |-> TRUE, price |-> 2000, storeId |-> 1, customPrice |-> <<>>,
                  markupPercentage |-> <<>>]
       IN  \E p \in Procs, u \in Users, refused \in BOOLEAN,
              b \in {ok, [ok EXCEPT !.storeId = 2], [ok EXCEPT !.customPrice = <<0>>],
                     [ok EXCEPT !.customPrice = <<2500>>], [ok EXCEPT !.productData = FALSE],
                     [ok EXCEPT !.storeId = 0], [ok EXCEPT !.customPrice = <<-1>>],
                     [ok EXCEPT !.markupPercentage = <<501>>]} :
              /\ \A q \in Procs : q < p => reqs[q].pc # "idle"
              /\ ImportBegin(p, u, b, refused)
    \/ \E p \in Procs : ImportEnd(p)
    \/ \E u \in Users, id \in 1..MaxImports : DeleteImported(u, id)

SpecImport == InitImport /\ [][NextImport]_vars

\* C21: every row of imported_products has a status among draft, active,
\* paused and deleted, and a row appears only in a step of POST
\* /products/import, with status 'draft'.
C21_ImportedAsDraft ==
    /\ [](\A r \in imported_products : r.status \in {"draft", "active", "paused", "deleted"})
    /\ [][\A r \in imported_products' \ imported_products :
             /\ r.status = "draft"
             /\ call'.route = "products/import"
             /\ \E p \in Procs : reqs'[p].pc = "writing" /\ reqs'[p].answer.data = {r}]_vars

C21_Witness ==
    /\ call.route = "products/import" /\ response.status = 201
    /\ response.data \subseteq imported_products

\* C25: an import answered with 400, 429, 404 or 500 has created no row and
\* left the import counter as it was; an import answered with 201 has created
\* exactly one row, owned by the caller, and has raised the caller's import
\* counter by exactly one.
C25_ImportAllOrNothing ==
    [][call'.route = "products/import" =>
          /\ reqs' = reqs =>
                 /\ response'.status \in {400, 429, 404, 500}
                 /\ UNCHANGED <<imported_products, usage_logs>>
          /\ \A p \in Procs :
                /\ (reqs[p].pc = "idle" /\ reqs'[p].pc = "writing") =>
                       /\ \E r \in imported_products' \ imported_products :
                             /\ imported_products' = imported_products \cup {r}
                             /\ r.user_id = call'.user
                       /\ UNCHANGED usage_logs
                /\ (reqs[p].pc = "writing" /\ reqs'[p].pc = "idle") =>
                       /\ response'.status = 201
                       /\ UNCHANGED imported_products
                       /\ currentCount(usage_logs', call'.user, "import", today(now))
                              = currentCount(usage_logs, call'.user, "import", today(now)) + 1]_vars

(***************************************************************************)
(* Stores and subscriptions: POST /api/stores/connect, DELETE              *)
(* /api/stores/:id and POST /api/webhooks/stripe over the users, stores,   *)
(* subscriptions and notifications tables.  Each request is handled start  *)
(* to end.  A Stripe subscription object is [id, customer, price, status]; *)
(* STRIPE_PRICE_PRO_MONTHLY is "price_pro".                                *)
(***************************************************************************)
\* webhook events the specification follows
MaxEvents == 2

\* handleSubscriptionCreated: db is [users, subscriptions, notifications]; the
\* upsert is refused, and its error ignored, when status fails the column's CHECK
handleSubscriptionCreated(db, subscription) ==
    LET found == {u \in DOMAIN db.users :
                         db.users[u].stripe_customer_id = subscription.customer}
        \* .single()
        user == IF Cardinality(found) = 1 THEN found ELSE {}
        id == CHOOSE u \in user : TRUE
        plan == IF subscription.price = "price_pro" THEN "pro" ELSE "free"
        row == [stripe_subscription_id |-> subscription.id, user_id |-> id,
                stripe_price_id |-> subscription.price, plan |-> plan,
                status |-> subscription.status]
    IN  IF user = {} THEN db
        ELSE [users |-> [db.users EXCEPT ![id].subscription_tier = plan],
              subscriptions |->
                  IF subscription.status \notin
                         {"active", "cancelled", "past_due", "unpaid", "trialing"}
                  THEN db.subscriptions
                  ELSE {r \in db.subscriptions : r.stripe_subscription_id # subscription.id}
                           \cup {row},
              notifications |->
                  db.notifications \cup {[id |-> NextId(db.notifications), user_id |-> id,
                                          type |-> "subscription",
                                          title |-> "Subscription Activated", read |-> FALSE]}]

handleSubscriptionUpdated(db, subscription) ==
    LET sub == {r \in db.subscriptions : r.stripe_subscription_id = subscription.id}
        plan == IF subscription.price = "price_pro" THEN "pro" ELSE "free"
    IN  IF sub = {} THEN handleSubscriptionCreated(db, subscription)
        ELSE [users |-> [u \in DOMAIN db.users |->
                            IF \E r \in sub : r.user_id = u
                            THEN [db.users[u] EXCEPT !.subscription_tier = plan]
                            ELSE db.users[u]],
              subscriptions |->
                  IF subscription.status \notin
                         {"active", "cancelled", "past_due", "unpaid", "trialing"}
                  THEN db.subscriptions
                  ELSE {IF r \in sub THEN [r EXCEPT !.status = subscription.status,
                                                    !.plan = plan]
                        ELSE r : r \in db.subscriptions},
              notifications |-> db.notifications]

\* handleSubscriptionDeleted without the update of users
handleSubscriptionDeleted_keepTier(db, subscription) ==
    LET sub == {r \in db.subscriptions : r.stripe_subscription_id = subscription.id}
        id == (CHOOSE r \in sub : TRUE).user_id
    IN  IF sub = {} THEN db
        ELSE [users |-> db.users,
              subscriptions |-> {IF r \in sub THEN [r EXCEPT !.status = "cancelled"] ELSE r :
                                    r \in db.subscriptions},
              notifications |->
                  db.notifications \cup {[id |-> NextId(db.notifications), user_id |-> id,
                                          type |-> "subscription",
                                          title |-> "Subscription Cancelled", read |-> FALSE]}]

handleSubscriptionDeleted(db, subscription) ==
    LET sub == {r \in db.subscriptions : r.stripe_subscription_id = subscription.id}
        id == (CHOOSE r \in sub : TRUE).user_id
    IN  IF sub = {} THEN db
        ELSE [users |-> [db.users EXCEPT ![id].subscription_tier = "free"],
              subscriptions |-> {IF r \in sub THEN [r EXCEPT !.status = "cancelled"] ELSE r :
                                    r \in db.subscriptions},
              notifications |->
                  db.notifications \cup {[id |-> NextId(db.notifications), user_id |-> id,
                                          type |-> "subscription",
                                          title |-> "Subscription Cancelled", read |-> FALSE]}]

\* POST /api/webhooks/stripe: event is [type, signed, object]; constructEvent
\* throws on a bad signature
StripeWebhook(event) ==
    LET db == [users |-> users, subscriptions |-> subscriptions,
               notifications |-> notifications]
        out == IF ~event.signed THEN db
               ELSE IF event.type = "customer.subscription.created"
               THEN handleSubscriptionCreated(db, event.object)
               ELSE IF event.type = "customer.subscription.updated"
               THEN handleSubscriptionUpdated(db, event.object)
               ELSE IF event.type = "customer.subscription.deleted"
               THEN handleSubscriptionDeleted(db, event.object)
               ELSE db
    IN  /\ tracked < MaxEvents
        /\ tracked' = tracked + 1
        /\ call' = [route |-> "webhooks/stripe", user |-> "", id |-> 0, event |-> event]
        /\ response' = Answer("", NoRequest, IF event.signed THEN 200 ELSE 400, "", FALSE, {})
        /\ users' = out.users
        /\ subscriptions' = out.subscriptions
        /\ notifications' = out.notifications
        /\ UNCHANGED <<now, usage_logs, products, cache, env, result, reqs, orders, stores,
                       imported_products>>

\* POST /api/stores/connect; valid: the body passes validation
Connect(u, storeUrl, valid) ==
    LET limit == errorHandler(AppError("Free tier limited to 1 store.", 403, "LIMIT_REACHED"))
        duplicate == errorHandler(AppError("Store already connected", 400, "DUPLICATE_STORE"))
        store == [id |-> NextId(stores), user_id |-> u, store_url |-> storeUrl,
                  is_active |-> TRUE, last_sync_at |-> <<>>]
        end(status, code, rows) ==
            response' = Answer(u, NoRequest, status, code, FALSE, rows)
    IN  /\ call' = [route |-> "stores/connect", user |-> u, id |-> 0]
        /\ IF ~valid THEN end(400, "", {}) /\ UNCHANGED stores
           ELSE IF /\ users[u].subscription_tier = "free"
                   /\ Cardinality({s \in stores : s.user_id = u}) >= 1
           THEN end(limit.status, limit.code, {}) /\ UNCHANGED stores
           ELSE IF \E s \in stores : s.user_id = u /\ s.store_url = storeUrl
           THEN end(duplicate.status, duplicate.code, {}) /\ UNCHANGED stores
           ELSE end(201, "", {store}) /\ stores' = stores \cup {store}
        /\ UNCHANGED <<now, usage_logs, products, cache, env, result, reqs, tracked, orders,
                       users, imported_products, notifications, subscriptions>>

\* DELETE /api/stores/:id; ON DELETE CASCADE takes the store's imported products
\* and orders
Disconnect(u, id) ==
    /\ call' = [route |-> "stores/delete", user |-> u, id |-> id]
    /\ response' = Answer(u, NoRequest, 200, "", FALSE, {})
    /\ stores' = {s \in stores : ~(s.id = id /\ s.user_id = u)}
    /\ imported_products' =
           {r \in imported_products : \E s \in stores' : s.id = r.store_id}
    /\ orders' = {o \in orders : \E s \in stores' : s.id = o.store_id}
    /\ UNCHANGED <<now, usage_logs, products, cache, env, result, reqs, tracked,
                   users, notifications, subscriptions>>

InitStores ==
    /\ now = 0
    /\ usage_logs = {}
    /\ products = <<>>
    /\ cache = {}
    /\ response = NoResponse
    /\ env = {}
    /\ call = [route |-> "", user |-> "", id |-> 0]
    /\ result = NotRun
    /\ reqs = NoReqs
    /\ tracked = 0
    /\ orders = {}
    /\ users = [u \in Users |-> [subscription_tier |-> "free",
                                 stripe_customer_id |-> "cus_" \o u]]
    /\ stores = {}
    /\ imported_products = {}
    /\ notifications = {}
    /\ subscriptions = {}

NextStores ==
    \/ \E u \in Users, storeUrl \in {"a.example", "b.example"}, valid \in BOOLEAN :
           /\ ~valid => storeUrl = "a.example"
           /\ Connect(u, storeUrl, valid)
    \/ \E u \in Users, id \in 1..2 : Disconnect(u, id)
    \* a subscription keeps its customer: sub_1 is alice's, sub_x that of a
    \* customer no user row names
    \/ \E type \in {"customer.subscription.created", "customer.subscription.updated",
                   "customer.subscription.deleted", "invoice.payment_succeeded"},
          signed \in BOOLEAN,
          of \in {[id |-> "sub_1", customer |-> "cus_alice"],
                  [id |-> "sub_x", customer |-> "cus_x"]},
          price \in {"price_pro", "price_other"}, status \in {"active", "incomplete"} :
           \* inputs the handler does not read are given one value
           /\ (\/ ~signed
               \/ of.id = "sub_x"
               \/ type \in {"customer.subscription.deleted", "invoice.payment_succeeded"}) =>
                  (price = "price_pro" /\ status = "active")
           /\ ~signed => (type = "customer.subscription.created" /\ of.id = "sub_1")
           /\ StripeWebhook([type |-> type, signed |-> signed,
                          object |-> [id |-> of.id, customer |-> of.customer,
                                      price |-> price, status |-> status]])

SpecStores == InitStores /\ [][NextStores]_vars

\* C22: a free-tier user who owns a store is refused by POST /stores/connect
\* with 403 and no store is created, and in every state every user whose
\* tier is free owns at most one store.
C22_FreeTierOneStore ==
    /\ [](\A u \in Users :
             users[u].subscription_tier = "free" =>
                 Cardinality({s \in stores : s.user_id = u}) <= 1)
    /\ [][(/\ call'.route = "stores/connect"
           /\ users[call'.user].subscription_tier = "free"
           /\ \E s \in stores : s.user_id = call'.user
           /\ response'.status # 400) =>
              (response'.status = 403 /\ UNCHANGED stores)]_vars

MaxTokens == 2

\* the last minute at which the clock still advances
MaxMinutes == 45

\* forgot-password answering 404 when no email-provider account has the address
ForgotPassword_tellsUnknown(email, valid) ==
    LET user == {u \in DOMAIN users : users[u].email = email}
        resetToken == "token" \o ToString(tracked + 1)
    IN  /\ call' = [route |-> "auth/forgot-password", user |-> "", id |-> 0, email |-> email]
        /\ IF ~valid
           THEN /\ response' = Answer("", NoRequest, 400, "", FALSE, {})
                /\ UNCHANGED <<users, tracked, result>>
           ELSE IF user = {} \/ \E u \in user : users[u].provider # "email"
           THEN /\ response' = Answer("", NoRequest, 404, "", FALSE, {})
                /\ UNCHANGED <<users, tracked, result>>
           ELSE /\ tracked < MaxTokens
                /\ tracked' = tracked + 1
                /\ users' = [u \in DOMAIN users |->
                                IF u \in user
                                THEN [users[u] EXCEPT !.reset_token = <<"sha256:" \o resetToken>>,
                                                      !.reset_token_expires = now + 30]
                                ELSE users[u]]
                /\ result' = [result EXCEPT !.issued = @ \cup {[token |-> resetToken,
                                                                 at |-> now]}]
                /\ response' = Answer("", NoRequest, 200, "", FALSE, {})
        /\ UNCHANGED <<now, usage_logs, products, cache, env, reqs, orders, stores,
                       imported_products, notifications, subscriptions>>

\* POST /api/auth/forgot-password; valid: the body holds an email address
ForgotPassword(email, valid) ==
    LET user == {u \in DOMAIN users : users[u].email = email}
        resetToken == "token" \o ToString(tracked + 1)
        \* the token is stored as crypto.createHash('sha256') of it
        message == Answer("", NoRequest, 200, "", FALSE, {})
    IN  /\ call' = [route |-> "auth/forgot-password", user |-> "", id |-> 0, email |-> email]
        /\ IF ~valid
           THEN /\ response' = Answer("", NoRequest, 400, "", FALSE, {})
                /\ UNCHANGED <<users, tracked, result>>
           ELSE IF user = {} \/ \E u \in user : users[u].provider # "email"
           THEN /\ response' = message
                /\ UNCHANGED <<users, tracked, result>>
           ELSE /\ tracked < MaxTokens
                /\ tracked' = tracked + 1
                /\ users' = [u \in DOMAIN users |->
                                IF u \in user
                                THEN [users[u] EXCEPT !.reset_token = <<"sha256:" \o resetToken>>,
                                                      !.reset_token_expires = now + 30]
                                ELSE users[u]]
                /\ result' = [result EXCEPT !.issued = @ \cup {[token |-> resetToken,
                                                                 at |-> now]}]
                /\ response' = IF env.NODE_ENV = "development"
                               THEN [message EXCEPT !.data = {[resetToken |-> resetToken]}]
                               ELSE message
        /\ UNCHANGED <<now, usage_logs, products, cache, env, reqs, orders, stores,
                       imported_products, notifications, subscriptions>>

\* POST /api/auth/reset-password up to bcrypt.hash; valid: token is not empty
\* and password has 8 characters or more
ResetBegin(p, token, password, valid) ==
    LET user == {u \in DOMAIN users : users[u].reset_token = <<"sha256:" \o token>>}
        refused == errorHandler(AppError("Invalid or expired reset token", 400,
                                         "INVALID_TOKEN"))
        end(status, code) ==
            /\ response' = Answer("", NoRequest, status, code, FALSE, {})
            /\ UNCHANGED reqs
    IN  /\ reqs[p].pc = "idle"
        /\ call' = [route |-> "auth/reset-password", user |-> "", id |-> 0, token |-> token]
        /\ IF ~valid THEN end(400, "")
           ELSE IF \/ Cardinality(user) # 1
                   \/ \E u \in user : users[u].reset_token_expires < now
           THEN end(refused.status, refused.code)
           ELSE /\ reqs' = [reqs EXCEPT ![p] = [pc |-> "hashing", seen |-> <<>>,
                                                existing |-> user, token |-> token,
                                                password |-> password]]
                /\ UNCHANGED response
        /\ UNCHANGED <<now, usage_logs, products, cache, env, result, tracked, orders, users,
                       stores, imported_products, notifications, subscriptions>>

\* POST /api/auth/reset-password from the update of users on
ResetEnd(p) ==
    /\ reqs[p].pc = "hashing"
    /\ call' = [route |-> "auth/reset-password", user |-> "", id |-> 0,
                token |-> reqs[p].token]
    /\ users' = [u \in DOMAIN users |->
                    IF u \in reqs[p].existing
                    THEN [users[u] EXCEPT !.password_hash = "bcrypt:" \o reqs[p].password,
                                          !.reset_token = <<>>,
                                          !.reset_token_expires = 0]
                    ELSE users[u]]
    /\ response' = Answer("", NoRequest, 200, "", FALSE, {})
    /\ result' = [result EXCEPT !.accepted = @ \cup {reqs[p].token}]
    /\ reqs' = [reqs EXCEPT ![p] = NoReqs[p]]
    /\ UNCHANGED <<now, usage_logs, products, cache, env, tracked, orders, stores,
                   imported_products, notifications, subscriptions>>

InitAuth ==
    /\ now = 0
    /\ usage_logs = {}
    /\ products = <<>>
    /\ cache = {}
    /\ response = NoResponse
    /\ env \in {[NODE_ENV |-> "production"], [NODE_ENV |-> "development"]}
    /\ call = [route |-> "", user |-> "", id |-> 0]
    /\ result = [issued |-> {}, accepted |-> {}]
    /\ reqs = NoReqs
    /\ tracked = 0
    /\ orders = <<>>
    /\ users = [u \in Users |->
                   [email |-> u \o "@example.com",
                    provider |-> IF u = "alice" THEN "email" ELSE "google",
                    password_hash |-> IF u = "alice" THEN "bcrypt:password0" ELSE "",
                    reset_token |-> <<>>, reset_token_expires |-> 0]]
    /\ stores = {}
    /\ imported_products = {}
    /\ notifications = {}
    /\ subscriptions = {}

NextAuth ==
    \/ \E email \in {"alice@example.com", "bob@example.com", "nobody@example.com"},
          valid \in BOOLEAN :
           /\ ~valid => email = "nobody@example.com"
           /\ ForgotPassword(email, valid)
    \/ \E p \in Procs, token \in {"token1", "token2", "sha256:token1"},
          password \in {"password1", "password2"}, valid \in BOOLEAN :
           /\ \A q \in Procs : q < p => reqs[q].pc # "idle"
           /\ (~valid \/ token # "token1") => password = "password1"
           /\ ~valid => token = "token1"
           /\ ResetBegin(p, token, password, valid)
    \/ \E p \in Procs : ResetEnd(p)
    \* a quarter of an hour passes; a request in flight ends well within it
    \/ /\ now < MaxMinutes
       /\ \A p \in Procs : reqs[p].pc = "idle"
       /\ now' = now + 15
       /\ UNCHANGED <<usage_logs, products, cache, response, env, call, result, reqs,
                      tracked, orders, users, stores, imported_products, notifications,
                      subscriptions>>

SpecAuth == InitAuth /\ [][NextAuth]_vars

\* C23: when NODE_ENV is not 'development', every POST /auth/forgot-password
\* whose body passes validation gets the same status and body, whether or
\* not an email-provider account has the address.
C23_ForgotPasswordSameAnswer ==
    [][(/\ call'.route = "auth/forgot-password"
        /\ response'.status # 400
        /\ env.NODE_ENV # "development") =>
           response' = Answer("", NoRequest, 200, "", FALSE, {})]_vars

\* C23 as stated: the same answer in every environment.
C23_SameAnswerAnyEnv ==
    [][(call'.route = "auth/forgot-password" /\ response'.status # 400) =>
           response' = Answer("", NoRequest, 200, "", FALSE, {})]_vars

\* in production a token has been issued for alice's address and the answer
\* is the one an unknown address gets
C23_Witness ==
    /\ env.NODE_ENV = "production"
    /\ call.route = "auth/forgot-password"
    /\ call.email = "alice@example.com"
    /\ users["alice"].reset_token # <<>>
    /\ response = Answer("", NoRequest, 200, "", FALSE, {})

\* C29: a reset-password request is accepted only for a token issued at most
\* 30 minutes earlier that no request has been accepted for before; a request
\* answered 400 INVALID_TOKEN changes no password_hash; and a request that
\* presents a token already accepted, expired or replaced is answered 400
\* INVALID_TOKEN.
C29_ResetTokenOnce ==
    [][LET accepted == \E p \in Procs : reqs[p].pc = "hashing" /\ reqs'[p].pc = "idle"
           spent == call'.token \in result.accepted
           expired == \A i \in result.issued : i.token = call'.token => now > i.at + 30
           replaced == \A u \in Users : users[u].reset_token # <<"sha256:" \o call'.token>>
       IN  (call'.route = "auth/reset-password" /\ now' = now) =>
               /\ accepted => (~spent /\ ~expired)
               /\ response'.code = "INVALID_TOKEN" => UNCHANGED users
               /\ (~accepted /\ (spent \/ expired \/ replaced)) =>
                      /\ reqs' = reqs
                      /\ response'.status = 400
                      /\ response'.code \in {"INVALID_TOKEN", ""}]_vars

(***************************************************************************)
(* The routes of orders, stores, imported products and notifications for   *)
(* two users.  In this section orders is the set of rows [id, user_id,     *)
(* store_id, status].  A row's user_id is written once, by the insert, and *)
(* ids are not reused, so a handler that verifies ownership and then       *)
(* writes by id is one step; POST /api/orders/:id/fulfill, whose select    *)
(* and update can be separated by another request's write of the status,   *)
(* takes two.  The notifications table is the one of database/schema.sql.  *)
(* All four tables start with rows of both users; env names the router a   *)
(* behaviour sends its requests to.                                        *)
(***************************************************************************)
\* rows of notifications up to which the specification lets fulfilment add
MaxNotifications == 3

\* POST /api/orders/:id/fulfill up to the update
FulfillBegin(p, u, id) ==
    LET order == {o \in orders : o.id = id /\ o.user_id = u}
        missing == errorHandler(AppError("Order not found", 404, ""))
        refused == errorHandler(AppError("Order cannot be fulfilled", 400, ""))
    IN  /\ reqs[p].pc = "idle"
        /\ Cardinality(notifications) < MaxNotifications
        /\ call' = [route |-> "orders/fulfill", user |-> u, id |-> id]
        /\ IF order = {}
           THEN /\ response' = Answer(u, NoRequest, missing.status, missing.code, FALSE, {})
                /\ UNCHANGED reqs
           ELSE IF \E o \in order : o.status \notin {"pending", "processing"}
           THEN /\ response' = Answer(u, NoRequest, refused.status, refused.code, FALSE, {})
                /\ UNCHANGED reqs
           ELSE /\ reqs' = [reqs EXCEPT ![p] = [pc |-> "updating", seen |-> <<u>>,
                                                existing |-> order]]
                /\ UNCHANGED response
        /\ UNCHANGED <<now, usage_logs, products, cache, env, result, tracked, orders, users,
                       stores, imported_products, notifications, subscriptions>>

\* POST /api/orders/:id/fulfill from the update on; the update is .eq('id') and
\* .single() reports an error when the row is gone
FulfillEnd(p) ==
    LET u == reqs[p].seen[1]
        id == (CHOOSE o \in reqs[p].existing : TRUE).id
        updatedOrder == {[o EXCEPT !.status = "processing"] : o \in {o \in orders : o.id = id}}
        failed == errorHandler(AppError("Failed to update order", 500, ""))
    IN  /\ reqs[p].pc = "updating"
        /\ call' = [route |-> "orders/fulfill", user |-> u, id |-> id]
        /\ reqs' = [reqs EXCEPT ![p] = NoReqs[p]]
        /\ IF updatedOrder = {}
           THEN /\ response' = Answer(u, NoRequest, failed.status, failed.code, FALSE, {})
                /\ UNCHANGED <<orders, notifications>>
           ELSE /\ orders' = {o \in orders : o.id # id} \cup updatedOrder
                /\ notifications' =
                       notifications \cup {[id |-> NextId(notifications), user_id |-> u,
                                            type |-> "order",
                                            title |-> "Order Fulfillment Started",
                                            read |-> FALSE]}
                /\ response' = Answer(u, NoRequest, 200, "", FALSE, updatedOrder)
        /\ UNCHANGED <<now, usage_logs, products, cache, env, result, tracked, users, stores,
                       imported_products, subscriptions>>

\* the other routes of /api/orders
OrdersRoute(u, route, id, status) ==
    LET own == {o \in orders : o.user_id = u}
        order == {o \in own : o.id = id}
        end(code, rows) == response' = Answer(u, NoRequest, code, "", FALSE, rows)
        \* .update(...).eq('id', id).eq('user_id', user).select().single()
        update(to) ==
            IF order = {} \/ to \notin {"pending", "processing", "awaiting_shipment", "shipped",
                                        "delivered", "cancelled", "refunded"}
            THEN end(500, {}) /\ UNCHANGED orders
            ELSE /\ orders' = (orders \ order) \cup {[o EXCEPT !.status = to] : o \in order}
                 /\ end(200, {[o EXCEPT !.status = to] : o \in order})
    IN  /\ call' = [route |-> "orders: " \o route, user |-> u, id |-> id]
        /\ CASE route = "GET /" -> end(200, own) /\ UNCHANGED orders
             [] route \in {"GET /:id", "GET /:id/track"} ->
                    end(IF order = {} THEN 404 ELSE 200, order) /\ UNCHANGED orders
             [] route = "POST /:id/auto-fulfill" ->
                    IF ~requireSubscription(u, "pro") THEN end(403, {}) /\ UNCHANGED orders
                    ELSE IF order = {} THEN end(404, {}) /\ UNCHANGED orders
                    ELSE /\ orders' = {IF o.id = id THEN [o EXCEPT !.status = "awaiting_shipment"]
                                       ELSE o : o \in orders}
                         /\ end(200, {})
             [] route = "PUT /:id/tracking" -> update("shipped")
             [] route = "PUT /:id/status" -> update(status)
        /\ UNCHANGED <<now, usage_logs, products, cache, env, result, reqs, tracked, users,
                       stores, imported_products, notifications, subscriptions>>

\* the routes of /api/stores other than connect and delete
StoresRoute(u, route, id) ==
    LET own == {s \in stores : s.user_id = u}
        store == {s \in own : s.id = id}
        end(code, rows) == response' = Answer(u, NoRequest, code, "", FALSE, rows)
        \* verify ownership, then .update(updates).eq('id', id)
        update(to(_)) ==
            IF store = {} THEN end(404, {}) /\ UNCHANGED stores
            ELSE /\ stores' = {IF s.id = id THEN to(s) ELSE s : s \in stores}
                 /\ end(200, {to(s) : s \in store})
        deactivate(s) == [s EXCEPT !.is_active = FALSE]
        synced(s) == [s EXCEPT !.last_sync_at = <<now>>]
    IN  /\ call' = [route |-> "stores: " \o route, user |-> u, id |-> id]
        /\ CASE route = "GET /" -> end(200, own) /\ UNCHANGED stores
             [] route = "GET /:id" ->
                    end(IF store = {} THEN 404 ELSE 200, store) /\ UNCHANGED stores
             [] route = "PUT /:id" -> update(deactivate)
             [] route = "POST /:id/sync" -> update(synced)
        /\ UNCHANGED <<now, usage_logs, products, cache, env, result, reqs, tracked, orders,
                       users, imported_products, notifications, subscriptions>>

\* GET /api/products/imported/list
ImportedList(u) ==
    /\ call' = [route |-> "products/imported/list", user |-> u, id |-> 0]
    /\ response' = Answer(u, NoRequest, 200, "", FALSE,
                          {r \in imported_products : r.user_id = u})
    /\ UNCHANGED <<now, usage_logs, products, cache, env, result, reqs, tracked, orders, users,
                   stores, imported_products, notifications, subscriptions>>

\* the routes of /api/notifications
NotificationsRoute(u, route, id) ==
    LET own == {n \in notifications : n.user_id = u}
        one == {n \in own : n.id = id}
        end(code, rows) == response' = Answer(u, NoRequest, code, "", FALSE, rows)
    IN  /\ call' = [route |-> "notifications: " \o route, user |-> u, id |-> id]
        /\ CASE route = "GET /" -> end(200, own) /\ UNCHANGED notifications
             [] route = "PUT /:id/read" ->
                    IF one = {} THEN end(404, {}) /\ UNCHANGED notifications
                    ELSE /\ notifications' =
                                (notifications \ one) \cup {[n EXCEPT !.read = TRUE] : n \in one}
                         /\ end(200, {[n EXCEPT !.read = TRUE] : n \in one})
             [] route = "PUT /read-all" ->
                    /\ notifications' =
                           (notifications \ own) \cup {[n EXCEPT !.read = TRUE] : n \in own}
                    /\ end(200, {})
             [] route = "DELETE /:id" ->
                    /\ notifications' = notifications \ one
                    /\ end(200, {})
        /\ UNCHANGED <<now, usage_logs, products, cache, env, result, reqs, tracked, orders,
                       users, stores, imported_products, subscriptions>>

InitRoutes ==
    /\ now = 0
    /\ usage_logs = {}
    /\ products = <<>>
    /\ cache = {}
    /\ response = NoResponse
    /\ env \in {[router |-> r] : r \in {"orders", "stores", "products", "notifications"}}
    /\ call = [route |-> "", user |-> "", id |-> 0]
    /\ result = NotRun
    /\ reqs = NoReqs
    /\ tracked = 0
    /\ orders = {[id |-> 1, user_id |-> "alice", store_id |-> 1, status |-> "pending"],
                 [id |-> 2, user_id |-> "bob", store_id |-> 2, status |-> "pending"]}
    /\ users = [u \in Users |-> [subscription_tier |-> subscription_tier(u),
                                 stripe_customer_id |-> "cus_" \o u]]
    /\ stores = {[id |-> 1, user_id |-> "alice", store_url |-> "a.example",
                  is_active |-> TRUE, last_sync_at |-> <<>>],
                 [id |-> 2, user_id |-> "bob", store_url |-> "b.example",
                  is_active |-> TRUE, last_sync_at |-> <<>>]}
    /\ imported_products =
           LET b(storeId) == [productData |-> TRUE, price |-> 2000, storeId |-> storeId,
                              customPrice |-> <<>>, markupPercentage |-> <<>>]
           IN  {importedRow("alice", b(1), 1), importedRow("bob", b(2), 2)}
    /\ notifications = {[id |-> 1, user_id |-> "alice", type |-> "order",
                         title |-> "Order Fulfillment Started", read |-> FALSE],
                        [id |-> 2, user_id |-> "bob", type |-> "order",
                         title |-> "Order Fulfillment Started", read |-> FALSE]}
    /\ subscriptions = {}

NextRoutes ==
    \/ \E p \in Procs, u \in Users, id \in 1..2 :
           /\ env.router = "orders"
           /\ \A q \in Procs : q < p => reqs[q].pc # "idle"
           /\ FulfillBegin(p, u, id)
    \/ \E p \in Procs : FulfillEnd(p)
    \/ \E u \in Users, id \in 1..2, status \in {"cancelled", "lost"},
          route \in {"GET /", "GET /:id", "GET /:id/track", "POST /:id/auto-fulfill",
                     "PUT /:id/tracking", "PUT /:id/status"} :
           /\ env.router = "orders"
           /\ route # "PUT /:id/status" => status = "cancelled"
           /\ route = "GET /" => id = 1
           /\ OrdersRoute(u, route, id, status)
    \/ \E u \in Users, id \in 1..2,
          route \in {"GET /", "GET /:id", "PUT /:id", "POST /:id/sync"} :
           /\ env.router = "stores"
           /\ route = "GET /" => id = 1
           /\ StoresRoute(u, route, id)
    \/ \E u \in Users : env.router = "stores" /\ Connect(u, "c.example", TRUE)
    \/ \E u \in Users, id \in 1..3 : env.router = "stores" /\ Disconnect(u, id)
    \/ \E u \in Users, storeId \in 1..2 :
           /\ env.router = "products"
           /\ \A p \in Procs : reqs[p].pc = "idle"
           /\ ImportBegin(1, u, [productData |-> TRUE, price |-> 2000, storeId |-> storeId,
                                 customPrice |-> <<>>, markupPercentage |-> <<>>], FALSE)
    \/ env.router = "products" /\ reqs[1].pc = "writing" /\ ImportEnd(1)
    \/ \E u \in Users : env.router = "products" /\ ImportedList(u)
    \/ \E u \in Users, id \in 1..3 : env.router = "products" /\ DeleteImported(u, id)
    \/ \E u \in Users, id \in 1..2,
          route \in {"GET /", "PUT /:id/read", "PUT /read-all", "DELETE /:id"} :
           /\ env.router = "notifications"
           /\ route \in {"GET /", "PUT /read-all"} => id = 1
           /\ NotificationsRoute(u, route, id)

SpecRoutes == InitRoutes /\ [][NextRoutes]_vars

\* C26: in every step of a request of user A, the rows of orders, stores,
\* imported_products and notifications whose user_id is not A are the same
\* before and after, and when the step answers, every row in the answer has
\* user_id A.
C26_OwnRowsOnly ==
    [][LET A == call'.user
           others(table) == {r \in table : r.user_id # A}
           answers == ~\E p \in Procs : reqs[p].pc = "idle" /\ reqs'[p].pc # "idle"
       IN  (now' = now /\ A \in Users) =>
               /\ others(orders') = others(orders)
               /\ others(stores') = others(stores)
               /\ others(imported_products') = others(imported_products)
               /\ others(notifications') = others(notifications)
               /\ answers => \A r \in response'.data : r.user_id = A]_vars

\* alice has asked to delete bob's imported product: 404, and the row is there
C26_Witness ==
    /\ call = [route |-> "products/imported/delete", user |-> "alice", id |-> 2]
    /\ response.status = 404
    /\ \E r \in imported_products : r.id = 2 /\ r.user_id = "bob"

\* C28: a step of POST /orders/:id/fulfill changes an order only if the
\* order's status is pending or processing; a request for an order of the
\* caller in another status is answered 400 with orders and notifications
\* unchanged; an answer of 200 leaves the order 'processing' and adds exactly
\* one notification, for the order's owner.
C28_FulfillOnlyOpenOrders ==
    [][LET id == call'.id
           order == {o \in orders : o.id = id}
           open == \A o \in order : o.status \in {"pending", "processing"}
           updates == \E p \in Procs : reqs[p].pc = "updating" /\ reqs'[p].pc = "idle"
           added == notifications' \ notifications
       IN  call'.route = "orders/fulfill" =>
               /\ orders' # orders => open
               /\ (~updates /\ ~open /\ \E o \in order : o.user_id = call'.user) =>
                      /\ response'.status = 400
                      /\ UNCHANGED <<orders, notifications, reqs>>
               /\ (updates /\ response'.status = 200) =>
                      /\ \A o \in orders' : o.id = id => o.status = "processing"
                      /\ Cardinality(added) = 1
                      /\ notifications \subseteq notifications'
                      /\ \A n \in added : \E o \in order : n.user_id = o.user_id]_vars

====
